---- MODULE Spec2Model ----
(***************************************************************************)
(* Four-Pillars (saju) analysis pipeline of backend/saju.                  *)
(*                                                                         *)
(* Notation.  The source writes stems, branches and elements as single     *)
(* CJK characters and its tags in Korean.  Here they are written in ASCII: *)
(*   stems     (capitalised pinyin)  Jia Yi Bing Ding Wu Ji Geng Xin Ren   *)
(*             Gui             for  甲 乙 丙 丁 戊 己 庚 辛 壬 癸          *)
(*   branches  (lower-case pinyin)   zi chou yin mao chen si wu wei shen   *)
(*             you xu hai      for  子 丑 寅 卯 辰 巳 午 未 申 酉 戌 亥    *)
(*   elements  Wood Fire Earth Metal Water  (ELEMENT_EN)                   *)
(* The empty string is Python's "" and NoValue is Python's None.           *)
(*                                                                         *)
(* Numbers.  The source computes scores in floating point and rounds to    *)
(* one decimal.  Here a raw score is kept exactly, as a count of 1/30      *)
(* points (every hidden-stem share is weight * days / 30), and every       *)
(* value rounded to one decimal is kept as a count of tenths.              *)
(***************************************************************************)
EXTENDS Integers, Sequences, FiniteSets, TLC

VARIABLES
    pillars,              \* the Chart: the four (stem, branch) pairs
    pc,                   \* position of full_analysis / of the scorer call
    element_result,       \* result of analyze_elements
    strength_result,      \* result of analyze_strength
    ten_gods_result,      \* result of analyze_ten_gods
    interactions_result,  \* result of analyze_interactions
    yong_shin_result,     \* result of select_yong_shin
    hash_seed,            \* the process's string-hash seed (set iteration order)
    birth_year,           \* the birth year given to full_analysis
    da_yun,               \* the calendar library's decade windows for the birth
    now_year,             \* datetime.now().year, the wall clock
    reports,              \* Analysis Reports returned so far for this input
    window,               \* arguments of one direct _score_fortune call
    outcome               \* what that call returned

vars == <<pillars, pc, element_result, strength_result, ten_gods_result,
          interactions_result, yong_shin_result, hash_seed, birth_year, da_yun, now_year, reports,
          window, outcome>>

NoValue == "None"

\* ------------------------------------------------------------------------
\* Domain tables (constants.py)
\* ------------------------------------------------------------------------

ELEMENTS == <<"Wood", "Fire", "Earth", "Metal", "Water">>

ElementSet == {ELEMENTS[i] : i \in 1..Len(ELEMENTS)}

ELEMENT_GENERATES ==
    [e \in ElementSet |->
        CASE e = "Wood"  -> "Fire"
          [] e = "Fire"  -> "Earth"
          [] e = "Earth" -> "Metal"
          [] e = "Metal" -> "Water"
          [] e = "Water" -> "Wood"]

ELEMENT_CONTROLS ==
    [e \in ElementSet |->
        CASE e = "Wood"  -> "Earth"
          [] e = "Earth" -> "Water"
          [] e = "Water" -> "Fire"
          [] e = "Fire"  -> "Metal"
          [] e = "Metal" -> "Wood"]

HEAVENLY_STEMS ==
    <<"Jia", "Yi", "Bing", "Ding", "Wu", "Ji", "Geng", "Xin", "Ren", "Gui">>

StemSet == {HEAVENLY_STEMS[i] : i \in 1..Len(HEAVENLY_STEMS)}

STEM_ELEMENT ==
    [s \in StemSet |->
        CASE s \in {"Jia", "Yi"}   -> "Wood"
          [] s \in {"Bing", "Ding"} -> "Fire"
          [] s \in {"Wu", "Ji"}     -> "Earth"
          [] s \in {"Geng", "Xin"}  -> "Metal"
          [] s \in {"Ren", "Gui"}   -> "Water"]

EARTHLY_BRANCHES ==
    <<"zi", "chou", "yin", "mao", "chen", "si",
      "wu", "wei", "shen", "you", "xu", "hai">>

BranchSet == {EARTHLY_BRANCHES[i] : i \in 1..Len(EARTHLY_BRANCHES)}

BRANCH_ELEMENT ==
    [b \in BranchSet |->
        CASE b \in {"zi", "hai"}                 -> "Water"
          [] b \in {"chou", "chen", "wei", "xu"} -> "Earth"
          [] b \in {"yin", "mao"}                -> "Wood"
          [] b \in {"si", "wu"}                  -> "Fire"
          [] b \in {"shen", "you"}               -> "Metal"]

\* hidden stems of a branch, in table order, as <<stem, days>>
HIDDEN_STEMS ==
    [b \in BranchSet |->
        CASE b = "zi"   -> << <<"Gui", 30>> >>
          [] b = "chou" -> << <<"Ji", 18>>, <<"Gui", 9>>, <<"Xin", 3>> >>
          [] b = "yin"  -> << <<"Jia", 16>>, <<"Bing", 7>>, <<"Wu", 7>> >>
          [] b = "mao"  -> << <<"Yi", 30>> >>
          [] b = "chen" -> << <<"Wu", 18>>, <<"Yi", 9>>, <<"Gui", 3>> >>
          [] b = "si"   -> << <<"Bing", 16>>, <<"Geng", 7>>, <<"Wu", 7>> >>
          [] b = "wu"   -> << <<"Ding", 20>>, <<"Ji", 10>> >>
          [] b = "wei"  -> << <<"Ji", 18>>, <<"Ding", 9>>, <<"Yi", 3>> >>
          [] b = "shen" -> << <<"Geng", 16>>, <<"Ren", 7>>, <<"Wu", 7>> >>
          [] b = "you"  -> << <<"Xin", 30>> >>
          [] b = "xu"   -> << <<"Wu", 18>>, <<"Xin", 9>>, <<"Ding", 3>> >>
          [] b = "hai"  -> << <<"Ren", 20>>, <<"Jia", 10>> >>]

\* the 60 stem-branch pairs, SIXTY_JIAZI[i + 1] for the source's index i
SIXTY_JIAZI ==
    [i \in 1..60 |->
        [stem   |-> HEAVENLY_STEMS[((i - 1) % 10) + 1],
         branch |-> EARTHLY_BRANCHES[((i - 1) % 12) + 1]]]

POSITION_WEIGHTS ==
    [year_stem |-> 10, year_branch |-> 10, month_stem |-> 10,
     month_branch |-> 35, day_stem |-> 0, day_branch |-> 18,
     time_stem |-> 7, time_branch |-> 10]

MONTH_TEMPERATURE ==
    [b \in BranchSet |->
        CASE b = "yin"  -> "slightly_cold"
          [] b = "mao"  -> "normal"
          [] b = "chen" -> "normal"
          [] b = "si"   -> "warm"
          [] b = "wu"   -> "very_hot"
          [] b = "wei"  -> "hot"
          [] b = "shen" -> "slightly_warm"
          [] b = "you"  -> "normal"
          [] b = "xu"   -> "slightly_cold"
          [] b = "hai"  -> "cold"
          [] b = "zi"   -> "very_cold"
          [] b = "chou" -> "very_cold"]

STEM_POLARITY ==
    [Jia |-> "yang", Yi |-> "yin", Bing |-> "yang", Ding |-> "yin",
     Wu |-> "yang", Ji |-> "yin", Geng |-> "yang", Xin |-> "yin",
     Ren |-> "yang", Gui |-> "yin"]

BRANCH_POLARITY ==
    [zi |-> "yang", chou |-> "yin", yin |-> "yang", mao |-> "yin",
     chen |-> "yang", si |-> "yin", wu |-> "yang", wei |-> "yin",
     shen |-> "yang", you |-> "yin", xu |-> "yang", hai |-> "yin"]

\* relation -> <<label for equal polarity, label for unequal polarity>>
\* (bigyeon 비견, geopjae 겁재, siksin 식신, sanggwan 상관, pyeonjae 편재,
\* jeongjae 정재, pyeongwan 편관, jeonggwan 정관, pyeonin 편인, jeongin 정인)
TEN_GOD_TABLE ==
    [same |-> <<"bigyeon", "geopjae">>,
     i_generate |-> <<"siksin", "sanggwan">>,
     i_control |-> <<"pyeonjae", "jeongjae">>,
     controls_me |-> <<"pyeongwan", "jeonggwan">>,
     generates_me |-> <<"pyeonin", "jeongin">>]

\* label -> category (bigeop 비겁, siksang 식상, jaeseong 재성,
\* gwanseong 관성, inseong 인성)
TEN_GOD_CATEGORY ==
    [bigyeon |-> "bigeop", geopjae |-> "bigeop",
     siksin |-> "siksang", sanggwan |-> "siksang",
     pyeonjae |-> "jaeseong", jeongjae |-> "jaeseong",
     pyeongwan |-> "gwanseong", jeonggwan |-> "gwanseong",
     pyeonin |-> "inseong", jeongin |-> "inseong"]

\* get_element(char): the element, or ValueError
get_element(char) ==
    IF char \in StemSet THEN [kind |-> "returned", value |-> STEM_ELEMENT[char]]
    ELSE IF char \in BranchSet
    THEN [kind |-> "returned", value |-> BRANCH_ELEMENT[char]]
    ELSE [kind |-> "error", value |-> "ValueError"]

\* get_polarity(char): the polarity, or ValueError
get_polarity(char) ==
    IF char \in StemSet THEN [kind |-> "returned", value |-> STEM_POLARITY[char]]
    ELSE IF char \in BranchSet
    THEN [kind |-> "returned", value |-> BRANCH_POLARITY[char]]
    ELSE [kind |-> "error", value |-> "ValueError"]

\* get_relation(self_element, other_element): the relation, or ValueError
get_relation(self_element, other_element) ==
    IF self_element = other_element
    THEN [kind |-> "returned", value |-> "same"]
    ELSE IF ELEMENT_GENERATES[self_element] = other_element
    THEN [kind |-> "returned", value |-> "i_generate"]
    ELSE IF ELEMENT_CONTROLS[self_element] = other_element
    THEN [kind |-> "returned", value |-> "i_control"]
    ELSE IF ELEMENT_CONTROLS[other_element] = self_element
    THEN [kind |-> "returned", value |-> "controls_me"]
    ELSE IF ELEMENT_GENERATES[other_element] = self_element
    THEN [kind |-> "returned", value |-> "generates_me"]
    ELSE [kind |-> "error", value |-> "ValueError"]

\* the label chosen without regard to polarity: always the pair's first
GetTenGodIgnoringPolarity(day_stem, other) ==
    LET relation == get_relation(get_element(day_stem).value,
                                 get_element(other).value)
    IN  [kind |-> "returned", value |-> TEN_GOD_TABLE[relation.value][1]]

\* get_ten_god(day_stem, other): the label, or the first ValueError raised
get_ten_god(day_stem, other) ==
    LET day_element == get_element(day_stem)
        other_element == get_element(other)
        day_pol == get_polarity(day_stem)
        other_pol == get_polarity(other)
    IN  IF day_element.kind = "error" THEN day_element
        ELSE IF other_element.kind = "error" THEN other_element
        ELSE IF day_pol.kind = "error" THEN day_pol
        ELSE IF other_pol.kind = "error" THEN other_pol
        ELSE LET relation == get_relation(day_element.value, other_element.value)
             IN  IF relation.kind = "error" THEN relation
                 ELSE LET pair == TEN_GOD_TABLE[relation.value]
                      IN  [kind |-> "returned",
                           value |-> IF day_pol.value = other_pol.value
                                     THEN pair[1] ELSE pair[2]]

\* ------------------------------------------------------------------------
\* Arithmetic helpers
\* ------------------------------------------------------------------------

\* Python's round() of the exact quotient n / d (d > 0, n >= 0) to an
\* integer: to nearest, a tie to the even neighbour
RoundDiv(n, d) ==
    LET q == n \div d
        r == n % d
    IN  IF 2 * r < d THEN q
        ELSE IF 2 * r > d THEN q + 1
        ELSE IF q % 2 = 0 THEN q ELSE q + 1

RECURSIVE SumOver(_, _)
\* sum(f[x] for x in S)
SumOver(f, S) ==
    IF S = {} THEN 0
    ELSE LET x == CHOOSE y \in S : TRUE
         IN  f[x] + SumOver(f, S \ {x})

\* min(ELEMENTS, key=...): the first element of ELEMENTS with the least key
MinElement(key) ==
    LET i == CHOOSE j \in 1..Len(ELEMENTS) :
                /\ \A k \in 1..Len(ELEMENTS) : key[ELEMENTS[j]] <= key[ELEMENTS[k]]
                /\ \A k \in 1..(j - 1) : key[ELEMENTS[k]] > key[ELEMENTS[j]]
    IN  ELEMENTS[i]

\* max(ELEMENTS, key=...): the first element of ELEMENTS with the greatest key
MaxElement(key) ==
    LET i == CHOOSE j \in 1..Len(ELEMENTS) :
                /\ \A k \in 1..Len(ELEMENTS) : key[ELEMENTS[j]] >= key[ELEMENTS[k]]
                /\ \A k \in 1..(j - 1) : key[ELEMENTS[k]] < key[ELEMENTS[j]]
    IN  ELEMENTS[i]

\* ------------------------------------------------------------------------
\* analyze_elements (elements.py)
\* ------------------------------------------------------------------------

StemPositions == <<"year_stem", "month_stem", "day_stem", "time_stem">>

BranchPositions == <<"year_branch", "month_branch", "day_branch", "time_branch">>

\* positions = {...}: the character at each of the eight positions
PositionsOf(p) ==
    [year_stem |-> p.year.stem, year_branch |-> p.year.branch,
     month_stem |-> p.month.stem, month_branch |-> p.month.branch,
     day_stem |-> p.day.stem, day_branch |-> p.day.branch,
     time_stem |-> p.time.stem, time_branch |-> p.time.branch]

\* every lookup of the core is a subscript on the closed tables
ValidChart(p) ==
    /\ \A i \in 1..4 : PositionsOf(p)[StemPositions[i]] \in StemSet
    /\ \A i \in 1..4 : PositionsOf(p)[BranchPositions[i]] \in BranchSet

\* sum(d for _, d in hidden)
TotalDays(hidden) ==
    SumOver([i \in 1..Len(hidden) |-> hidden[i][2]], 1..Len(hidden))

\* what a stem position adds to element e, in 1/30 points
StemShare(weight, stem, e) ==
    IF weight # 0 /\ STEM_ELEMENT[stem] = e THEN 30 * weight ELSE 0

\* the whole weight of a branch position given to the branch's own element
BranchShareUnsplit(weight, branch, e) ==
    IF BRANCH_ELEMENT[branch] = e THEN 30 * weight ELSE 0

\* a branch position that hands on only the share of its main hidden stem
BranchShareMainStemOnly(weight, branch, e) ==
    LET hidden == HIDDEN_STEMS[branch]
        total_days == TotalDays(hidden)
    IN  IF weight = 0 \/ total_days <= 0 THEN 0
        ELSE IF STEM_ELEMENT[hidden[1][1]] = e
        THEN (30 * weight * hidden[1][2]) \div total_days
        ELSE 0

\* what a branch position adds to element e, in 1/30 points:
\* weight * (days / total_days) for each hidden stem of that element
BranchShare(weight, branch, e) ==
    LET hidden == HIDDEN_STEMS[branch]
        total_days == TotalDays(hidden)
    IN  IF weight = 0 \/ total_days <= 0 THEN 0
        ELSE SumOver([i \in 1..Len(hidden) |->
                        IF STEM_ELEMENT[hidden[i][1]] = e
                        THEN (30 * weight * hidden[i][2]) \div total_days
                        ELSE 0],
                     1..Len(hidden))

\* no base bonus for the day element
NoDayBaseShare(day_element, e) == 0

\* the fixed base score of the day element, in 1/30 points (5 points)
DayBaseShare(day_element, e) == IF e = day_element THEN 30 * 5 ELSE 0

\* element_scores after the loop and the base bonus, in 1/30 points
ElementScores(p) ==
    LET pos == PositionsOf(p)
    IN  [e \in ElementSet |->
            SumOver([i \in 1..4 |->
                        StemShare(POSITION_WEIGHTS[StemPositions[i]],
                                  pos[StemPositions[i]], e)
                        + BranchShare(POSITION_WEIGHTS[BranchPositions[i]],
                                      pos[BranchPositions[i]], e)],
                    1..4)
            + DayBaseShare(STEM_ELEMENT[p.day.stem], e)]

\* element_counts: characters of each element among the weighted positions
ElementCounts(p) ==
    LET pos == PositionsOf(p)
    IN  [e \in ElementSet |->
            Cardinality({i \in 1..4 :
                /\ POSITION_WEIGHTS[StemPositions[i]] # 0
                /\ STEM_ELEMENT[pos[StemPositions[i]]] = e})
            + Cardinality({i \in 1..4 :
                /\ POSITION_WEIGHTS[BranchPositions[i]] # 0
                /\ BRANCH_ELEMENT[pos[BranchPositions[i]]] = e})]

\* the percentage cut off after the first decimal instead of rounded
RatioTruncated(score30, total30) ==
    IF total30 > 0 THEN (score30 * 1000) \div total30 ELSE 0

\* round(element_scores[e] / total_score * 100, 1), in tenths of a percent
RatioOf(score30, total30) ==
    IF total30 > 0 THEN RoundDiv(score30 * 1000, total30) ELSE 0

\* round(x, 1) of a value held in 1/30 points, in tenths of a point
RoundScore(score30) == RoundDiv(score30, 3)

analyze_elements(p) ==
    LET scores == ElementScores(p)
        total30 == SumOver(scores, ElementSet)
        ratios == [e \in ElementSet |-> RatioOf(scores[e], total30)]
    IN  [raw |-> scores,
         raw_total |-> total30,
         count |-> ElementCounts(p),
         score |-> [e \in ElementSet |-> RoundScore(scores[e])],
         ratio |-> ratios,
         total_score |-> RoundScore(total30),
         strongest_element |-> MaxElement(scores),
         weakest_element |-> MinElement(scores),
         missing_elements |-> {e \in ElementSet : ratios[e] < 50},
         day_element |-> STEM_ELEMENT[p.day.stem]]

\* ------------------------------------------------------------------------
\* analyze_strength (strength.py)
\* ------------------------------------------------------------------------

\* support by the peer element only, the generating element left out
IsPeerElementOnly(day_element, other_element) == day_element = other_element

_is_supporting_element(day_element, other_element) ==
    \/ day_element = other_element
    \/ ELEMENT_GENERATES[other_element] = day_element

\* the if/elif chain alone, the two extreme verdicts never assigned
StrengthLevelChainOnly(support_ratio, deuk_count) ==
    IF support_ratio >= 550 THEN "strong"
    ELSE IF support_ratio >= 500 /\ deuk_count >= 2 THEN "strong"
    ELSE IF support_ratio <= 400 THEN "weak"
    ELSE IF support_ratio <= 450 /\ deuk_count <= 1 THEN "weak"
    ELSE "balanced"

\* the if / elif chain on the ratio (in tenths) and the indicator count,
\* then the override of the extreme cases
StrengthLevel(support_ratio, deuk_count) ==
    LET first ==
            IF support_ratio >= 550 THEN "strong"
            ELSE IF support_ratio >= 500 /\ deuk_count >= 2 THEN "strong"
            ELSE IF support_ratio <= 400 THEN "weak"
            ELSE IF support_ratio <= 450 /\ deuk_count <= 1 THEN "weak"
            ELSE "balanced"
    IN  IF support_ratio >= 700 THEN "very_strong"
        ELSE IF support_ratio <= 250 THEN "very_weak"
        ELSE first

\* the share of the score that does not support the day element
OppositionRatio(supporting_score, total_score) ==
    IF total_score > 0
    THEN RoundDiv((total_score - supporting_score) * 1000, total_score)
    ELSE 0

\* round(supporting_score / total_score * 100, 1) if total_score > 0 else 0
SupportRatio(supporting_score, total_score) ==
    IF total_score > 0
    THEN RoundDiv(supporting_score * 1000, total_score)
    ELSE 0

analyze_strength(p, element_analysis) ==
    LET day_element == STEM_ELEMENT[p.day.stem]
        month_hidden == HIDDEN_STEMS[p.month.branch]
        is_deuk_ryeong ==
            IF Len(month_hidden) > 0
            THEN _is_supporting_element(day_element,
                                        STEM_ELEMENT[month_hidden[1][1]])
            ELSE FALSE
        day_hidden == HIDDEN_STEMS[p.day.branch]
        is_deuk_ji ==
            \E i \in 1..Len(day_hidden) :
                STEM_ELEMENT[day_hidden[i][1]] = day_element
        all_chars == <<p.year.stem, p.month.stem, p.time.stem,
                       p.year.branch, p.month.branch,
                       p.day.branch, p.time.branch>>
        elem_of(c) == IF c \in StemSet THEN STEM_ELEMENT[c]
                      ELSE BRANCH_ELEMENT[c]
        total_count == Len(all_chars)
        support_count ==
            Cardinality({i \in 1..Len(all_chars) :
                _is_supporting_element(day_element, elem_of(all_chars[i]))})
        is_deuk_se == 2 * support_count > total_count
        \* stats[day_element]["score"] plus the score of every element that
        \* generates the day element, in tenths
        supporting_score ==
            element_analysis.score[day_element]
            + SumOver([e \in ElementSet |->
                          IF ELEMENT_GENERATES[e] = day_element
                          THEN element_analysis.score[e] ELSE 0],
                      ElementSet)
        total_score == element_analysis.total_score
        support_ratio == SupportRatio(supporting_score, total_score)
        deuk_count ==
            (IF is_deuk_ryeong THEN 1 ELSE 0) + (IF is_deuk_ji THEN 1 ELSE 0)
            + (IF is_deuk_se THEN 1 ELSE 0)
    IN  [strength_level |-> StrengthLevel(support_ratio, deuk_count),
         self_support_score |-> supporting_score,
         self_support_ratio |-> support_ratio,
         is_deuk_ryeong |-> is_deuk_ryeong,
         is_deuk_ji |-> is_deuk_ji,
         is_deuk_se |-> is_deuk_se,
         deuk_count |-> deuk_count]

\* ------------------------------------------------------------------------
\* analyze_ten_gods (ten_gods.py)
\* ------------------------------------------------------------------------

\* the categories of category_count, in the order the dict lists them
TenGodCategories == <<"bigeop", "siksang", "jaeseong", "gwanseong", "inseong">>

\* TEN_GOD_CATEGORY.get(tg, "")
CategoryOrEmpty(tg) ==
    IF tg \in DOMAIN TEN_GOD_CATEGORY THEN TEN_GOD_CATEGORY[tg] ELSE ""

\* the entry of ten_god_map for a stem position
StemTenGod(key, stem, day_stem) ==
    IF key = "day_stem"
    THEN [char |-> stem, ten_god |-> "ilgan", category |-> "bonin"]
    ELSE LET tg == get_ten_god(day_stem, stem).value
         IN  [char |-> stem, ten_god |-> tg, category |-> CategoryOrEmpty(tg)]

\* the entry of ten_god_map for a branch position labelled by the branch
\* character itself, its own element and its own polarity
BranchTenGodOfBranchItself(branch, day_stem) ==
    LET hidden == HIDDEN_STEMS[branch]
        tg == get_ten_god(day_stem, branch).value
    IN  [char |-> branch,
         ten_god |-> tg,
         category |-> CategoryOrEmpty(tg),
         hidden_ten_gods |->
            [i \in 1..Len(hidden) |->
                LET htg == get_ten_god(day_stem, hidden[i][1]).value
                IN  [stem |-> hidden[i][1],
                     ten_god |-> htg,
                     category |-> CategoryOrEmpty(htg),
                     days |-> hidden[i][2]]]]

\* the entry of ten_god_map for a branch position: the label is that of the
\* first hidden stem listed for the branch
BranchTenGod(branch, day_stem) ==
    LET hidden == HIDDEN_STEMS[branch]
        tg == IF Len(hidden) > 0
              THEN get_ten_god(day_stem, hidden[1][1]).value
              ELSE ""
    IN  [char |-> branch,
         ten_god |-> tg,
         category |-> CategoryOrEmpty(tg),
         hidden_ten_gods |->
            [i \in 1..Len(hidden) |->
                LET htg == get_ten_god(day_stem, hidden[i][1]).value
                IN  [stem |-> hidden[i][1],
                     ten_god |-> htg,
                     category |-> CategoryOrEmpty(htg),
                     days |-> hidden[i][2]]]]

\* max(category_count, key=...): the first category of the largest count
DominantCategory(category_count) ==
    LET best == CHOOSE i \in 1..Len(TenGodCategories) :
                    /\ \A j \in 1..Len(TenGodCategories) :
                            category_count[TenGodCategories[j]]
                                <= category_count[TenGodCategories[i]]
                    /\ \A j \in 1..(i - 1) :
                            category_count[TenGodCategories[j]]
                                < category_count[TenGodCategories[i]]
    IN  TenGodCategories[best]

analyze_ten_gods(p) ==
    LET day_stem == p.day.stem
        pos == PositionsOf(p)
        ten_god_map ==
            [key \in DOMAIN pos |->
                IF key \in {StemPositions[i] : i \in 1..4}
                THEN StemTenGod(key, pos[key], day_stem)
                ELSE BranchTenGod(pos[key], day_stem)]
        category_count ==
            [c \in {TenGodCategories[i] : i \in 1..Len(TenGodCategories)} |->
                Cardinality({key \in DOMAIN pos : ten_god_map[key].category = c})]
    IN  [ten_god_map |-> ten_god_map,
         category_distribution |-> category_count,
         dominant_category |-> DominantCategory(category_count)]

\* ------------------------------------------------------------------------
\* select_yong_shin (yong_shin.py)
\* ------------------------------------------------------------------------

\* the candidates left in the order they were listed
CandidatesUnsorted(s) == s

RECURSIVE InsertStable(_, _)
\* x placed into the key-sorted s behind every entry whose key is <= its own
InsertStable(s, x) ==
    IF s = <<>> THEN <<x>>
    ELSE IF x.key < s[Len(s)].key
         THEN Append(InsertStable(SubSeq(s, 1, Len(s) - 1), x), s[Len(s)])
         ELSE Append(s, x)

RECURSIVE StableSort(_)
\* list.sort(key=...): ascending by key, entries of equal key keep their order
StableSort(s) ==
    IF s = <<>> THEN <<>>
    ELSE InsertStable(StableSort(SubSeq(s, 1, Len(s) - 1)), s[Len(s)])

_check_johu(temperature) ==
    IF temperature \in {"very_hot", "hot"} THEN "Water"
    ELSE IF temperature \in {"very_cold", "cold"} THEN "Fire"
    ELSE ""

\* the elements of ELEMENTS, in order, whose ratio is at least 30 %
HighElements(ratio) ==
    SelectSeq(ELEMENTS, LAMBDA e : ratio[e] >= 300)

\* the None that _check_tonggwan returns when no conflict is found
NoTonggwan == [element1 |-> NoValue, element2 |-> NoValue, mediator |-> NoValue]

_check_tonggwan(ratio) ==
    LET high_elements == HighElements(ratio)
        e1 == high_elements[1]
        e2 == high_elements[2]
    IN  IF Len(high_elements) >= 2
           /\ (ELEMENT_CONTROLS[e1] = e2 \/ ELEMENT_CONTROLS[e2] = e1)
        THEN [element1 |-> e1,
              element2 |-> e2,
              mediator |-> IF ELEMENT_CONTROLS[e1] = e2
                           THEN ELEMENT_GENERATES[e1]
                           ELSE ELEMENT_GENERATES[e2]]
        ELSE NoTonggwan

\* the first e of ELEMENTS with table[e] = target, "" when there is none
FirstWith(table, target) ==
    LET hits == SelectSeq(ELEMENTS, LAMBDA e : table[e] = target)
    IN  IF Len(hits) > 0 THEN hits[1] ELSE ""

\* balancing that names no ally for a balanced Chart
SelectByStrengthNoAlly(day_element, strength_level, score) ==
    LET insung_element == FirstWith(ELEMENT_GENERATES, day_element)
        gwansung_element == FirstWith(ELEMENT_CONTROLS, day_element)
        cand(e) == [elem |-> e, key |-> score[e]]
    IN  IF strength_level \in {"strong", "very_strong"}
        THEN LET candidates == StableSort(<<cand(ELEMENT_GENERATES[day_element]),
                                            cand(ELEMENT_CONTROLS[day_element]),
                                            cand(gwansung_element)>>)
             IN  [yong_shin |-> candidates[1].elem,
                  hee_shin |-> candidates[2].elem,
                  gi_shin |-> insung_element,
                  reason |-> "eokbu_strong"]
        ELSE IF strength_level \in {"weak", "very_weak"}
        THEN LET candidates == StableSort(<<cand(insung_element),
                                            cand(day_element)>>)
             IN  [yong_shin |-> candidates[1].elem,
                  hee_shin |-> candidates[2].elem,
                  gi_shin |-> gwansung_element,
                  reason |-> "eokbu_weak"]
        ELSE [yong_shin |-> MinElement(score),
              hee_shin |-> "",
              gi_shin |-> MaxElement([e \in ElementSet |->
                                        IF e # day_element THEN score[e] ELSE 0]),
              reason |-> "balanced"]

_select_by_strength(day_element, strength_level, score) ==
    LET insung_element == FirstWith(ELEMENT_GENERATES, day_element)
        siksang_element == ELEMENT_GENERATES[day_element]
        jaesung_element == ELEMENT_CONTROLS[day_element]
        gwansung_element == FirstWith(ELEMENT_CONTROLS, day_element)
        cand(e) == [elem |-> e, key |-> score[e]]
    IN  IF strength_level \in {"strong", "very_strong"}
        THEN LET candidates == StableSort(<<cand(siksang_element),
                                            cand(jaesung_element),
                                            cand(gwansung_element)>>)
             IN  [yong_shin |-> candidates[1].elem,
                  hee_shin |-> candidates[2].elem,
                  gi_shin |-> insung_element,
                  reason |-> "eokbu_strong"]
        ELSE IF strength_level \in {"weak", "very_weak"}
        THEN LET candidates == StableSort(<<cand(insung_element),
                                            cand(day_element)>>)
             IN  [yong_shin |-> candidates[1].elem,
                  hee_shin |-> candidates[2].elem,
                  gi_shin |-> gwansung_element,
                  reason |-> "eokbu_weak"]
        ELSE LET weakest == MinElement(score)
                 strongest ==
                     MaxElement([e \in ElementSet |->
                                    IF e # day_element THEN score[e] ELSE 0])
             IN  [yong_shin |-> weakest,
                  hee_shin |-> ELEMENT_GENERATES[weakest],
                  gi_shin |-> strongest,
                  reason |-> "balanced"]

_get_method_name(johu, tonggwan) ==
    IF johu # "" THEN "johu"
    ELSE IF tonggwan # NoTonggwan THEN "tonggwan"
    ELSE "eokbu"

\* regulation applied for every month _check_johu answers for
JohuAppliesWheneverNeeded(johu_needed, temperature) == johu_needed # ""

\* the condition under which the regulating element replaces the choice
JohuApplies(johu_needed, temperature) ==
    johu_needed # "" /\ temperature \in {"very_hot", "very_cold"}

select_yong_shin(p, element_analysis, strength_analysis) ==
    LET day_element == STEM_ELEMENT[p.day.stem]
        strength_level == strength_analysis.strength_level
        temperature == MONTH_TEMPERATURE[p.month.branch]
        johu_needed == _check_johu(temperature)
        tonggwan_needed == _check_tonggwan(element_analysis.ratio)
        base == _select_by_strength(day_element, strength_level,
                                    element_analysis.score)
        johu_applies == JohuApplies(johu_needed, temperature)
        yong_shin ==
            IF tonggwan_needed # NoTonggwan THEN tonggwan_needed.mediator
            ELSE IF johu_applies THEN johu_needed
            ELSE base.yong_shin
        reason ==
            IF tonggwan_needed # NoTonggwan THEN "tonggwan"
            ELSE IF johu_applies THEN "johu"
            ELSE base.reason
        gi_shin ==
            IF base.gi_shin = "" THEN FirstWith(ELEMENT_CONTROLS, yong_shin)
            ELSE base.gi_shin
    IN  [yong_shin |-> yong_shin,
         hee_shin |-> base.hee_shin,
         gi_shin |-> gi_shin,
         selection_method |-> _get_method_name(johu_needed, tonggwan_needed),
         selection_reason |-> reason,
         temperature |-> temperature]

\* ------------------------------------------------------------------------
\* Timeline scorer (fortune.py)
\* ------------------------------------------------------------------------

\* STEM_ELEMENT.get(stem, "") and BRANCH_ELEMENT.get(branch, "")
StemElementOrEmpty(stem) == IF stem \in StemSet THEN STEM_ELEMENT[stem] ELSE ""

BranchElementOrEmpty(branch) ==
    IF branch \in BranchSet THEN BRANCH_ELEMENT[branch] ELSE ""

\* ELEMENT_GENERATES.get(e): None for a key that is no element
GeneratesOrNone(e) == IF e \in ElementSet THEN ELEMENT_GENERATES[e] ELSE NoValue

\* the step without the +5 for an element the primary-need element generates
ScoreStepWithoutDrain(elem, yong_shin, gi_shin) ==
    IF elem = "" THEN 0
    ELSE (IF elem = yong_shin THEN 25
          ELSE IF GeneratesOrNone(elem) = yong_shin THEN 15
          ELSE 0)
         + (IF elem = gi_shin THEN -20
            ELSE IF GeneratesOrNone(elem) = gi_shin THEN -10
            ELSE 0)

\* the step with the weights of the docstring: +30 for the primary-need
\* element, +20 for an element generating it
ScoreStepByDocstring(elem, yong_shin, gi_shin) ==
    IF elem = "" THEN 0
    ELSE (IF elem = yong_shin THEN 30
          ELSE IF GeneratesOrNone(elem) = yong_shin THEN 20
          ELSE 0)
         + (IF elem = gi_shin THEN -20
            ELSE IF GeneratesOrNone(elem) = gi_shin THEN -10
            ELSE 0)

\* one pass of the loop body of _score_fortune: what elem adds to the score
ScoreStep(elem, yong_shin, gi_shin) ==
    IF elem = "" THEN 0
    ELSE (IF elem = yong_shin THEN 25
          ELSE IF GeneratesOrNone(elem) = yong_shin THEN 15
          ELSE IF GeneratesOrNone(yong_shin) = elem THEN 5
          ELSE 0)
         + (IF elem = gi_shin THEN -20
            ELSE IF GeneratesOrNone(elem) = gi_shin THEN -10
            ELSE 0)

\* score before the final max(0, min(100, score))
RawFortuneScore(stem, branch, yong_shin, gi_shin) ==
    50 + ScoreStep(StemElementOrEmpty(stem), yong_shin, gi_shin)
       + ScoreStep(BranchElementOrEmpty(branch), yong_shin, gi_shin)

Min2(a, b) == IF a <= b THEN a ELSE b

Max2(a, b) == IF a >= b THEN a ELSE b

\* the weights of the docstring (+30 same, +20 generating), no final clamp
ScoreByDocstringUnclamped(stem, branch, yong_shin, gi_shin) ==
    LET step(elem) ==
            IF elem = "" THEN 0
            ELSE (IF elem = yong_shin THEN 30
                  ELSE IF GeneratesOrNone(elem) = yong_shin THEN 20
                  ELSE 0)
                 + (IF elem = gi_shin THEN -20
                    ELSE IF GeneratesOrNone(elem) = gi_shin THEN -10
                    ELSE 0)
    IN  50 + step(StemElementOrEmpty(stem)) + step(BranchElementOrEmpty(branch))

_score_fortune(stem, branch, yong_shin, gi_shin) ==
    Max2(0, Min2(100, RawFortuneScore(stem, branch, yong_shin, gi_shin)))

_score_to_rating(score) ==
    IF score >= 85 THEN "daegil"
    ELSE IF score >= 70 THEN "gil"
    ELSE IF score >= 55 THEN "botong"
    ELSE IF score >= 40 THEN "hyung"
    ELSE "daehyung"

\* the year's pillar counted from year 0 instead of year 4
YearlyFortuneFromYearZero(year, yong_shin, gi_shin) ==
    LET stem == HEAVENLY_STEMS[(year % 10) + 1]
        branch == EARTHLY_BRANCHES[(year % 12) + 1]
        score == _score_fortune(stem, branch, yong_shin, gi_shin)
    IN  [year |-> year,
         stem |-> stem,
         branch |-> branch,
         stem_element |-> STEM_ELEMENT[stem],
         branch_element |-> BRANCH_ELEMENT[branch],
         score |-> score,
         rating |-> _score_to_rating(score)]

_calculate_yearly_fortune(year, yong_shin, gi_shin) ==
    LET stem_idx == (year - 4) % 10
        branch_idx == (year - 4) % 12
        stem == HEAVENLY_STEMS[stem_idx + 1]
        branch == EARTHLY_BRANCHES[branch_idx + 1]
        score == _score_fortune(stem, branch, yong_shin, gi_shin)
    IN  [year |-> year,
         stem |-> stem,
         branch |-> branch,
         stem_element |-> STEM_ELEMENT[stem],
         branch_element |-> BRANCH_ELEMENT[branch],
         score |-> score,
         rating |-> _score_to_rating(score)]

\* {**dy, "score": score, "rating": ...} for one decade window
ScoredDaYun(dy, yong_shin, gi_shin) ==
    LET score == _score_fortune(dy.stem, dy.branch, yong_shin, gi_shin)
    IN  [start_age |-> dy.start_age,
         end_age |-> dy.end_age,
         stem |-> dy.stem,
         branch |-> dy.branch,
         score |-> score,
         rating |-> _score_to_rating(score)]

\* yun_data is get_yun_data(...)["da_yun"], now is datetime.now().year.
\* current_da_yun is <<>> for None and <<window>> otherwise.
analyze_fortune(yong_shin_analysis, the_birth_year, yun_data, now) ==
    LET yong_shin == yong_shin_analysis.yong_shin
        gi_shin == yong_shin_analysis.gi_shin
        current_age == now - the_birth_year + 1
        scored_da_yun ==
            [i \in 1..Len(yun_data) |-> ScoredDaYun(yun_data[i], yong_shin, gi_shin)]
        current ==
            {i \in 1..Len(yun_data) :
                /\ yun_data[i].start_age <= current_age
                /\ current_age <= yun_data[i].end_age}
        current_year == now
    IN  [current_age |-> current_age,
         da_yun_list |-> scored_da_yun,
         current_da_yun |->
            IF current = {} THEN <<>>
            ELSE <<scored_da_yun[CHOOSE i \in current : \A j \in current : j <= i]>>,
         current_year_fortune |->
            _calculate_yearly_fortune(current_year, yong_shin, gi_shin),
         yearly_fortunes |->
            [k \in 1..6 |->
                _calculate_yearly_fortune(current_year + k - 1, yong_shin, gi_shin)]]

\* ------------------------------------------------------------------------
\* Pattern tables (constants.py) and analyze_interactions (interactions.py)
\* ------------------------------------------------------------------------

\* Each dict keyed by frozensets is a sequence in insertion order; a key
\* written frozenset(["wu", "wu"]) is the one-member set {"wu"}.
STEM_COMBINATIONS ==
    << [combo |-> {"Jia", "Ji"},   result |-> "Earth"],
       [combo |-> {"Yi", "Geng"},  result |-> "Metal"],
       [combo |-> {"Bing", "Xin"}, result |-> "Water"],
       [combo |-> {"Ding", "Ren"}, result |-> "Wood"],
       [combo |-> {"Wu", "Gui"},   result |-> "Fire"] >>

BRANCH_SIX_COMBINATIONS ==
    << [combo |-> {"zi", "chou"},  result |-> "Earth"],
       [combo |-> {"yin", "hai"},  result |-> "Wood"],
       [combo |-> {"mao", "xu"},   result |-> "Fire"],
       [combo |-> {"chen", "you"}, result |-> "Metal"],
       [combo |-> {"si", "shen"},  result |-> "Water"],
       [combo |-> {"wu", "wei"},   result |-> "Earth"] >>

BRANCH_THREE_HARMONY ==
    << [combo |-> {"shen", "zi", "chen"}, result |-> "Water"],
       [combo |-> {"hai", "mao", "wei"},  result |-> "Wood"],
       [combo |-> {"yin", "wu", "xu"},    result |-> "Fire"],
       [combo |-> {"si", "you", "chou"},  result |-> "Metal"] >>

BRANCH_DIRECTIONAL ==
    << [combo |-> {"yin", "mao", "chen"}, result |-> "Wood"],
       [combo |-> {"si", "wu", "wei"},    result |-> "Fire"],
       [combo |-> {"shen", "you", "xu"},  result |-> "Metal"],
       [combo |-> {"hai", "zi", "chou"},  result |-> "Water"] >>

BRANCH_CLASHES ==
    { {"zi", "wu"}, {"chou", "wei"}, {"yin", "shen"},
      {"mao", "you"}, {"chen", "xu"}, {"si", "hai"} }

BRANCH_PUNISHMENTS ==
    << [combo |-> {"yin", "si", "shen"}, kind |-> "murye"],
       [combo |-> {"chou", "xu", "wei"}, kind |-> "eunhye"],
       [combo |-> {"zi", "mao"},         kind |-> "murye"],
       [combo |-> {"wu", "wu"},          kind |-> "jahyeong"],
       [combo |-> {"chen", "chen"},      kind |-> "jahyeong"],
       [combo |-> {"you", "you"},        kind |-> "jahyeong"],
       [combo |-> {"hai", "hai"},        kind |-> "jahyeong"] >>

BRANCH_BREAKS ==
    { {"zi", "you"}, {"chou", "chen"}, {"yin", "hai"},
      {"mao", "wu"}, {"si", "shen"}, {"wei", "xu"} }

RECURSIVE Concat(_)
\* the members of a sequence of lists, appended in order
Concat(ss) ==
    IF ss = <<>> THEN <<>>
    ELSE ss[1] \o Concat(SubSeq(ss, 2, Len(ss)))

\* index of a branch in EARTHLY_BRANCHES, 0-based
BranchIndex(b) == CHOOSE i \in 0..11 : EARTHLY_BRANCHES[i + 1] = b

\* Where a set of strings comes in iteration order.  The order follows the
\* strings' hashes, which are fixed within one process and differ between
\* processes (hash randomisation); seed stands for the process's hash seed.
HashSlot(b, seed) ==
    IF seed % 2 = 0 THEN (BranchIndex(b) + seed) % 12
    ELSE 11 - ((BranchIndex(b) + seed) % 12)

RECURSIVE ListOfSet(_, _)
\* list(s) of a set or frozenset s of branches
ListOfSet(S, seed) ==
    IF S = {} THEN <<>>
    ELSE LET b == CHOOSE x \in S :
                    \A y \in S : HashSlot(x, seed) <= HashSlot(y, seed)
         IN  <<b>> \o ListOfSet(S \ {b}, seed)

\* for i in range(4): for j in range(i + 1, 4)
IndexPairs == << <<1, 2>>, <<1, 3>>, <<1, 4>>, <<2, 3>>, <<2, 4>>, <<3, 4>> >>

\* result of the first table row whose key is the set pair, "" when none is
TableResult(table, pair) ==
    LET hits == SelectSeq(table, LAMBDA row : row.combo = pair)
    IN  IF Len(hits) > 0 THEN hits[1].result ELSE ""

\* a row found as soon as the pair's members all belong to its key
InTableBySubset(table, pair) ==
    \E k \in 1..Len(table) : pair \subseteq table[k].combo

\* frozenset([a, b]) in table
InTable(table, pair) == \E k \in 1..Len(table) : table[k].combo = pair

\* branch_list.index(m): position of the first occurrence, 1-based
FirstIndex(list, m) ==
    CHOOSE i \in 1..Len(list) :
        list[i] = m /\ \A j \in 1..(i - 1) : list[j] # m

\* priorities are held in tenths, the source's 2.5 being 25
Interaction(type, priority, elements, positions, result, impact) ==
    [type |-> type, priority |-> priority, elements |-> elements,
     positions |-> positions, result |-> result, impact |-> impact]

\* the entries in the order the seven passes append them
DiscoveredInteractions(p, seed) ==
    LET stems == <<p.year.stem, p.month.stem, p.day.stem, p.time.stem>>
        branch_list == <<p.year.branch, p.month.branch,
                         p.day.branch, p.time.branch>>
        branch_set == {branch_list[i] : i \in 1..4}
        pos_list(members) ==
            [k \in 1..Len(members) |->
                BranchPositions[FirstIndex(branch_list, members[k])]]
        PairPass(chars, hit(_), entry(_, _)) ==
            Concat([n \in 1..Len(IndexPairs) |->
                LET i == IndexPairs[n][1]
                    j == IndexPairs[n][2]
                IN  IF hit({chars[i], chars[j]}) THEN <<entry(i, j)>> ELSE <<>>])
        stem_pass ==
            PairPass(stems,
                     LAMBDA pair : InTable(STEM_COMBINATIONS, pair),
                     LAMBDA i, j :
                        Interaction("cheonganhap", 30, <<stems[i], stems[j]>>,
                                    <<StemPositions[i], StemPositions[j]>>,
                                    TableResult(STEM_COMBINATIONS,
                                                {stems[i], stems[j]}),
                                    "medium"))
        directional_pass ==
            Concat([n \in 1..Len(BRANCH_DIRECTIONAL) |->
                LET combo == BRANCH_DIRECTIONAL[n].combo
                    members == ListOfSet(combo, seed)
                IN  IF combo \subseteq branch_set
                    THEN <<Interaction("banghap", 10, members, pos_list(members),
                                       BRANCH_DIRECTIONAL[n].result, "very_high")>>
                    ELSE <<>>])
        harmony_pass ==
            Concat([n \in 1..Len(BRANCH_THREE_HARMONY) |->
                LET matching == BRANCH_THREE_HARMONY[n].combo \cap branch_set
                    members == ListOfSet(matching, seed)
                    is_full == Cardinality(matching) = 3
                IN  IF Cardinality(matching) >= 2
                    THEN <<Interaction(IF is_full THEN "samhap" ELSE "bansamhap",
                                       IF is_full THEN 20 ELSE 25,
                                       members, pos_list(members),
                                       BRANCH_THREE_HARMONY[n].result,
                                       IF is_full THEN "high" ELSE "medium")>>
                    ELSE <<>>])
        six_pass ==
            PairPass(branch_list,
                     LAMBDA pair : InTable(BRANCH_SIX_COMBINATIONS, pair),
                     LAMBDA i, j :
                        Interaction("yukhap", 30,
                                    <<branch_list[i], branch_list[j]>>,
                                    <<BranchPositions[i], BranchPositions[j]>>,
                                    TableResult(BRANCH_SIX_COMBINATIONS,
                                                {branch_list[i], branch_list[j]}),
                                    "medium"))
        clash_pass ==
            PairPass(branch_list,
                     LAMBDA pair : pair \in BRANCH_CLASHES,
                     LAMBDA i, j :
                        Interaction("chung", 40,
                                    <<branch_list[i], branch_list[j]>>,
                                    <<BranchPositions[i], BranchPositions[j]>>,
                                    "", "high"))
        punishment_pass ==
            Concat([n \in 1..Len(BRANCH_PUNISHMENTS) |->
                LET members == ListOfSet(BRANCH_PUNISHMENTS[n].combo, seed)
                    count ==
                        Cardinality({i \in 1..4 : branch_list[i] = members[1]})
                    matching == BRANCH_PUNISHMENTS[n].combo \cap branch_set
                IN  IF Len(members) = 2 /\ members[1] = members[2]
                    THEN IF count >= 2
                         THEN <<Interaction("jahyeong", 50, <<members[1]>>, <<>>,
                                            "", "medium")>>
                         ELSE <<>>
                    ELSE IF Len(members) = 2 /\ members[1] # members[2]
                    THEN IF BRANCH_PUNISHMENTS[n].combo \subseteq branch_set
                         THEN <<Interaction("hyeong", 50, members, <<>>,
                                            "", "medium")>>
                         ELSE <<>>
                    ELSE IF Len(members) = 3
                    THEN IF Cardinality(matching) >= 2
                         THEN <<Interaction("samhyeong", 50,
                                            ListOfSet(matching, seed), <<>>, "",
                                            IF Cardinality(matching) = 3
                                            THEN "high" ELSE "medium")>>
                         ELSE <<>>
                    ELSE <<>>])
        break_pass ==
            PairPass(branch_list,
                     LAMBDA pair : pair \in BRANCH_BREAKS,
                     LAMBDA i, j :
                        Interaction("pa", 60,
                                    <<branch_list[i], branch_list[j]>>,
                                    <<BranchPositions[i], BranchPositions[j]>>,
                                    "", "low"))
    IN  stem_pass \o directional_pass \o harmony_pass \o six_pass
        \o clash_pass \o punishment_pass \o break_pass

\* a sort by priority that hands equal-priority entries back in reverse
SortByPriorityReversing(found) ==
    LET n == Len(found)
        keyed == [i \in 1..n |->
                    [key |-> found[n + 1 - i].priority, item |-> found[n + 1 - i]]]
        sorted == StableSort(keyed)
    IN  [i \in 1..Len(sorted) |-> sorted[i].item]

\* interactions.sort(key=lambda x: x["priority"])
SortByPriority(found) ==
    LET keyed == [i \in 1..Len(found) |->
                    [key |-> found[i].priority, item |-> found[i]]]
        sorted == StableSort(keyed)
    IN  [i \in 1..Len(sorted) |-> sorted[i].item]

analyze_interactions(p, seed) ==
    LET interactions == SortByPriority(DiscoveredInteractions(p, seed))
        types == {interactions[i].type : i \in 1..Len(interactions)}
    IN  [interactions |-> interactions,
         type_counts |->
            [t \in types |->
                Cardinality({i \in 1..Len(interactions) :
                                interactions[i].type = t})],
         total_count |-> Len(interactions),
         has_major_clash |->
            \E i \in 1..Len(interactions) : interactions[i].type = "chung",
         has_harmony |->
            \E i \in 1..Len(interactions) :
                interactions[i].type
                    \in {"banghap", "samhap", "yukhap", "cheonganhap"}]

\* ------------------------------------------------------------------------
\* get_yun_data (calculator.py) and full_analysis (analyzer.py)
\* ------------------------------------------------------------------------

\* The decade windows as the calendar library lists them: each has its
\* ganzi, a string of two characters (here a tuple) or the empty string.
get_yun_data(library_da_yun) ==
    LET kept == SelectSeq(library_da_yun, LAMBDA dy : dy.ganzi # <<>>)
    IN  [i \in 1..Len(kept) |->
            [start_age |-> kept[i].start_age,
             end_age |-> kept[i].end_age,
             stem |-> kept[i].ganzi[1],
             branch |-> IF Len(kept[i].ganzi) > 1 THEN kept[i].ganzi[2] ELSE ""]]

\* the Analysis Report of one call, for a Chart whose lookups all succeed
full_analysis(p, the_birth_year, library_da_yun, now, seed) ==
    LET element_analysis == analyze_elements(p)
        strength_analysis == analyze_strength(p, element_analysis)
        ten_gods_analysis == analyze_ten_gods(p)
        interactions_analysis == analyze_interactions(p, seed)
        yong_shin_analysis ==
            select_yong_shin(p, element_analysis, strength_analysis)
        fortune_analysis ==
            analyze_fortune(yong_shin_analysis, the_birth_year,
                            get_yun_data(library_da_yun), now)
    IN  [eight_characters |-> p,
         element_analysis |-> element_analysis,
         strength_analysis |-> strength_analysis,
         ten_gods_analysis |-> ten_gods_analysis,
         interactions_analysis |-> interactions_analysis,
         yong_shin_analysis |-> yong_shin_analysis,
         fortune_analysis |-> fortune_analysis]

\* ------------------------------------------------------------------------
\* Bounds of the checked inputs
\* ------------------------------------------------------------------------

\* how many consecutive pillars of the sexagenary cycle, from FirstPillar
\* on, each of the four positions of a Chart ranges over
NumYearPillars == 12

NumMonthPillars == 12

NumDayPillars == 12

NumTimePillars == 12

\* how many hash seeds (iteration orders of a set) a process may start with
NumHashSeeds == 2

\* pillars per position (month, day, time; the year pillar is the first one)
\* of the Charts whose whole report is compared
NumReportPillars == 3

\* calls of full_analysis on one input, clock ticks (years) between them
MaxInvocations == 2

MaxTicks == 1

\* the year the clock shows first, and the age in that year
ClockStart == 2026

AgeAtStart == 30

\* decade windows the calendar library lists after the childhood entry,
\* and the ages at which the first of them may begin
NumDaYun == 3

MaxFirstAge == 2

\* the pillar Jia-yin, the one every position holds in the worked scenario
FirstPillar ==
    CHOOSE i \in 1..60 : SIXTY_JIAZI[i] = [stem |-> "Jia", branch |-> "yin"]

\* index in SIXTY_JIAZI of the k-th pillar after the one of index i
PillarAfter(i, k) == ((i - 1 + k) % 60) + 1

\* the n consecutive pillars of the cycle that start at FirstPillar
PillarRange(n) == {SIXTY_JIAZI[PillarAfter(FirstPillar, k)] : k \in 0..(n - 1)}

\* the Charts the calendar library hands over
Charts ==
    [year : PillarRange(NumYearPillars), month : PillarRange(NumMonthPillars),
     day : PillarRange(NumDayPillars), time : PillarRange(NumTimePillars)]

\* the Chart of the worked scenario: four Jia stems on four yin branches
WorkedChart ==
    [pos \in {"year", "month", "day", "time"} |-> SIXTY_JIAZI[FirstPillar]]

\* a character outside the closed alphabets
Unknown == "?"

\* malformed Charts: the worked Chart with one character unrecognised
MalformedCharts ==
    {[WorkedChart EXCEPT ![pos].stem = Unknown] :
        pos \in {"year", "month", "day", "time"}}
    \cup {[WorkedChart EXCEPT ![pos].branch = Unknown] :
            pos \in {"year", "month", "day", "time"}}

HashSeeds == 0..(NumHashSeeds - 1)

\* ------------------------------------------------------------------------
\* Spec: the stages of full_analysis on one Chart (analyzer.py)
\* ------------------------------------------------------------------------

Init ==
    /\ pillars \in Charts \cup MalformedCharts
    /\ hash_seed \in HashSeeds
    /\ pc = "elements"
    /\ element_result = NoValue
    /\ strength_result = NoValue
    /\ ten_gods_result = NoValue
    /\ interactions_result = NoValue
    /\ yong_shin_result = NoValue
    /\ birth_year = NoValue
    /\ da_yun = NoValue
    /\ now_year = NoValue
    /\ reports = <<>>
    /\ window = NoValue
    /\ outcome = NoValue

\* element_result = analyze_elements(pillars)
AnalyzeElements ==
    /\ pc = "elements"
    /\ ValidChart(pillars)
    /\ element_result' = analyze_elements(pillars)
    /\ pc' = "strength"
    /\ UNCHANGED <<ten_gods_result, pillars, strength_result, interactions_result,
                   yong_shin_result, hash_seed, birth_year, da_yun, now_year,
                   reports, window, outcome>>

\* analyze_elements raises KeyError on a character that is in no table:
\* STEM_ELEMENT[char], STEM_ELEMENT[pillars.day.stem], BRANCH_ELEMENT[branch]
AnalyzeElementsFails ==
    /\ pc = "elements"
    /\ ~ValidChart(pillars)
    /\ pc' = "error"
    /\ UNCHANGED <<ten_gods_result, pillars, element_result, strength_result,
                   interactions_result, yong_shin_result, hash_seed,
                   birth_year, da_yun, now_year, reports, window, outcome>>

\* strength_result = analyze_strength(pillars, element_result)
AnalyzeStrength ==
    /\ pc = "strength"
    /\ strength_result' = analyze_strength(pillars, element_result)
    /\ pc' = "ten_gods"
    /\ UNCHANGED <<ten_gods_result, pillars, element_result, interactions_result,
                   yong_shin_result, hash_seed, birth_year, da_yun, now_year,
                   reports, window, outcome>>

\* ten_gods_result = analyze_ten_gods(pillars)
AnalyzeTenGods ==
    /\ pc = "ten_gods"
    /\ ten_gods_result' = analyze_ten_gods(pillars)
    /\ pc' = "interactions"
    /\ UNCHANGED <<pillars, element_result, strength_result,
                   interactions_result, yong_shin_result, hash_seed,
                   birth_year, da_yun, now_year, reports, window, outcome>>

\* interactions_result = analyze_interactions(pillars)
AnalyzeInteractions ==
    /\ pc = "interactions"
    /\ interactions_result' = analyze_interactions(pillars, hash_seed)
    /\ pc' = "yong_shin"
    /\ UNCHANGED <<ten_gods_result, pillars, element_result, strength_result,
                   yong_shin_result, hash_seed, birth_year, da_yun, now_year,
                   reports, window, outcome>>

\* yong_shin_result = select_yong_shin(pillars, element_result, strength_result)
SelectYongShin ==
    /\ pc = "yong_shin"
    /\ yong_shin_result' =
            select_yong_shin(pillars, element_result, strength_result)
    /\ pc' = "selected"
    /\ UNCHANGED <<ten_gods_result, pillars, element_result, strength_result,
                   interactions_result, hash_seed, birth_year, da_yun,
                   now_year, reports, window, outcome>>

Next ==
    \/ AnalyzeElements
    \/ AnalyzeElementsFails
    \/ AnalyzeStrength
    \/ AnalyzeTenGods
    \/ AnalyzeInteractions
    \/ SelectYongShin

Spec == Init /\ [][Next]_vars

\* ------------------------------------------------------------------------
\* SpecScore: direct calls of get_element and of the Timeline Scorer
\* ------------------------------------------------------------------------

\* Timeline Windows and element pairs handed to the scorer, the
\* unrecognised stem and branch among them
Windows ==
    [stem : StemSet \cup {Unknown}, branch : BranchSet \cup {Unknown},
     yong_shin : ElementSet, gi_shin : ElementSet]

InitScore ==
    /\ window \in Windows
    /\ pc = "call"
    /\ outcome = [kind |-> "pending"]
    /\ pillars = NoValue
    /\ hash_seed = 0
    /\ element_result = NoValue
    /\ strength_result = NoValue
    /\ ten_gods_result = NoValue
    /\ interactions_result = NoValue
    /\ yong_shin_result = NoValue
    /\ birth_year = NoValue
    /\ da_yun = NoValue
    /\ now_year = NoValue
    /\ reports = <<>>

\* score = _score_fortune(stem, branch, yong_shin, gi_shin, pillars) and
\* rating = _score_to_rating(score): the function has no raising path
ScoreWindow ==
    /\ pc = "call"
    /\ LET score == _score_fortune(window.stem, window.branch,
                                   window.yong_shin, window.gi_shin)
       IN  outcome' = [kind |-> "returned", score |-> score,
                       rating |-> _score_to_rating(score)]
    /\ pc' = "scored"
    /\ UNCHANGED <<ten_gods_result, pillars, element_result, strength_result,
                   interactions_result, yong_shin_result, hash_seed,
                   birth_year, da_yun, now_year, reports, window>>

\* get_element(stem) on the window's stem
LookupStem ==
    /\ pc = "call"
    /\ outcome' = get_element(window.stem)
    /\ pc' = "looked_up"
    /\ UNCHANGED <<ten_gods_result, pillars, element_result, strength_result,
                   interactions_result, yong_shin_result, hash_seed,
                   birth_year, da_yun, now_year, reports, window>>

NextScore == ScoreWindow \/ LookupStem

SpecScore == InitScore /\ [][NextScore]_vars

\* ------------------------------------------------------------------------
\* SpecReport: repeated calls of full_analysis on one input, while the
\* clock advances and the serving process may be restarted
\* ------------------------------------------------------------------------

ReportCharts ==
    [year : PillarRange(1), month : PillarRange(NumReportPillars),
     day : PillarRange(NumReportPillars), time : PillarRange(NumReportPillars)]

\* index in SIXTY_JIAZI of a pillar
PillarIndex(pl) == CHOOSE i \in 1..60 : SIXTY_JIAZI[i] = pl

\* what the calendar library lists for a birth: the childhood entry without
\* ganzi, then NumDaYun ten-year windows that follow the month pillar
\* forwards (step 1) or backwards (step 59) through the cycle
LibraryDaYun(month_pillar, step, first_age) ==
    <<[ganzi |-> <<>>, start_age |-> 1, end_age |-> first_age - 1]>>
    \o [k \in 1..NumDaYun |->
            LET pl == SIXTY_JIAZI[PillarAfter(PillarIndex(month_pillar), k * step)]
            IN  [ganzi |-> <<pl.stem, pl.branch>>,
                 start_age |-> first_age + 10 * (k - 1),
                 end_age |-> first_age + 10 * (k - 1) + 9]]

InitReport ==
    /\ pillars \in ReportCharts
    /\ hash_seed \in HashSeeds
    /\ birth_year = ClockStart - AgeAtStart + 1
    /\ \E step \in {1, 59}, first_age \in 1..MaxFirstAge :
            da_yun = LibraryDaYun(pillars.month, step, first_age)
    /\ now_year = ClockStart
    /\ reports = <<>>
    /\ pc = "serving"
    /\ element_result = NoValue
    /\ strength_result = NoValue
    /\ ten_gods_result = NoValue
    /\ interactions_result = NoValue
    /\ yong_shin_result = NoValue
    /\ window = NoValue
    /\ outcome = NoValue

\* one call full_analysis(...) with the same arguments as every other
Invoke ==
    /\ Len(reports) < MaxInvocations
    /\ reports' = Append(reports, full_analysis(pillars, birth_year, da_yun,
                                                now_year, hash_seed))
    /\ UNCHANGED <<ten_gods_result, pillars, pc, element_result, strength_result,
                   interactions_result, yong_shin_result, hash_seed,
                   birth_year, da_yun, now_year, window, outcome>>

\* a new year begins
Tick ==
    /\ now_year < ClockStart + MaxTicks
    /\ now_year' = now_year + 1
    /\ UNCHANGED <<ten_gods_result, pillars, pc, element_result, strength_result,
                   interactions_result, yong_shin_result, hash_seed,
                   birth_year, da_yun, reports, window, outcome>>

\* the serving process is restarted and draws a new hash seed
Restart ==
    /\ \E seed \in HashSeeds : hash_seed' = seed
    /\ hash_seed' # hash_seed
    /\ UNCHANGED <<ten_gods_result, pillars, pc, element_result, strength_result,
                   interactions_result, yong_shin_result, birth_year, da_yun,
                   now_year, reports, window, outcome>>

NextReport == Invoke \/ Tick \/ Restart

SpecReport == InitReport /\ [][NextReport]_vars

\* ------------------------------------------------------------------------
\* SpecRatio: analyze_strength on two synthetic Element Distributions, the
\* second with a larger score of the day element and nothing else changed
\* ------------------------------------------------------------------------

\* the largest score (in tenths) of an element in the first distribution,
\* and the largest increase (in tenths) of the day element's score
MaxSyntheticScore == 4

MaxIncrease == 3

\* one Chart per day element: the worked Chart with another day stem
DayStemCharts ==
    {[WorkedChart EXCEPT !["day"].stem = st] :
        st \in {"Jia", "Bing", "Wu", "Geng", "Ren"}}

\* the part of an Element Distribution analyze_strength reads: the scores
\* and their total
Distribution(score) ==
    [score |-> score, total_score |-> SumOver(score, ElementSet)]

\* the same distribution with the day element's score raised
Raised(score, day_element, increase) ==
    [score EXCEPT ![day_element] = @ + increase]

InitRatio ==
    /\ pillars \in DayStemCharts
    /\ window \in [score : [ElementSet -> 0..MaxSyntheticScore],
                   increase : 1..MaxIncrease]
    /\ outcome = [kind |-> "pending"]
    /\ pc = "call"
    /\ hash_seed = 0
    /\ element_result = NoValue
    /\ strength_result = NoValue
    /\ ten_gods_result = NoValue
    /\ interactions_result = NoValue
    /\ yong_shin_result = NoValue
    /\ birth_year = NoValue
    /\ da_yun = NoValue
    /\ now_year = NoValue
    /\ reports = <<>>

\* analyze_strength(pillars, first distribution)
AnalyzeFirst ==
    /\ pc = "call"
    /\ element_result' = Distribution(window.score)
    /\ strength_result' = analyze_strength(pillars, Distribution(window.score))
    /\ outcome' = [kind |-> "first"]
    /\ pc' = "first_done"
    /\ UNCHANGED <<pillars, ten_gods_result, interactions_result,
                   yong_shin_result, hash_seed, birth_year, da_yun, now_year,
                   reports, window>>

\* analyze_strength(pillars, second distribution); the first call's ratio
\* is kept in outcome
AnalyzeSecond ==
    /\ pc = "first_done"
    /\ LET second == Distribution(Raised(window.score,
                                         STEM_ELEMENT[pillars.day.stem],
                                         window.increase))
       IN  /\ element_result' = second
           /\ strength_result' = analyze_strength(pillars, second)
    /\ outcome' = [kind |-> "compared",
                   first_ratio |-> strength_result.self_support_ratio]
    /\ pc' = "compared"
    /\ UNCHANGED <<pillars, ten_gods_result, interactions_result,
                   yong_shin_result, hash_seed, birth_year, da_yun, now_year,
                   reports, window>>

NextRatio == AnalyzeFirst \/ AnalyzeSecond

SpecRatio == InitRatio /\ [][NextRatio]_vars

\* ------------------------------------------------------------------------
\* SpecFrame: several invocations of full_analysis, for different Charts,
\* whose stages are interleaved in any order (analyzer.py). Every variable
\* holds one value per invocation.
\* ------------------------------------------------------------------------

\* how many invocations run side by side, and how many different Charts
\* they are given
NumFrameInvocations == 2

NumFrameCharts == 3

FrameInvocations == 1..NumFrameInvocations

FrameCharts ==
    [year : PillarRange(1), month : PillarRange(1),
     day : PillarRange(NumFrameCharts), time : PillarRange(1)]

\* a stage result is held as a one-element sequence once it is produced;
\* at the start every result of every invocation is still to be produced
NothingYet == [i \in FrameInvocations |-> <<>>]

InitFrame ==
    /\ pillars \in [FrameInvocations -> FrameCharts]
    /\ pc = [i \in FrameInvocations |-> "elements"]
    /\ element_result = NothingYet
    /\ strength_result = NothingYet
    /\ ten_gods_result = NothingYet
    /\ interactions_result = NothingYet
    /\ yong_shin_result = NothingYet
    /\ outcome = NothingYet
    /\ da_yun = [i \in FrameInvocations |->
                    LibraryDaYun(pillars[i].month, 1, MaxFirstAge)]
    /\ birth_year = ClockStart - AgeAtStart + 1
    /\ now_year = ClockStart
    /\ hash_seed = 0
    /\ reports = <<>>
    /\ window = NoValue

\* element_result = analyze_elements(pillars)
FrameElements ==
    \E i \in FrameInvocations :
        /\ pc[i] = "elements"
        /\ element_result' =
                [element_result EXCEPT ![i] = <<analyze_elements(pillars[i])>>]
        /\ pc' = [pc EXCEPT ![i] = "strength"]
        /\ UNCHANGED <<pillars, strength_result, ten_gods_result,
                       interactions_result, yong_shin_result, hash_seed,
                       birth_year, da_yun, now_year, reports, window, outcome>>

\* a strength stage that keeps its result in one place for all invocations
FrameStrengthShared ==
    \E i \in FrameInvocations :
        /\ pc[i] = "strength"
        /\ strength_result' =
                [j \in FrameInvocations |->
                    <<analyze_strength(pillars[i], element_result[i][1])>>]
        /\ pc' = [pc EXCEPT ![i] = "ten_gods"]
        /\ UNCHANGED <<pillars, element_result, ten_gods_result,
                       interactions_result, yong_shin_result, hash_seed,
                       birth_year, da_yun, now_year, reports, window, outcome>>

\* strength_result = analyze_strength(pillars, element_result)
FrameStrength ==
    \E i \in FrameInvocations :
        /\ pc[i] = "strength"
        /\ strength_result' =
                [strength_result EXCEPT
                    ![i] = <<analyze_strength(pillars[i],
                                              element_result[i][1])>>]
        /\ pc' = [pc EXCEPT ![i] = "ten_gods"]
        /\ UNCHANGED <<pillars, element_result, ten_gods_result,
                       interactions_result, yong_shin_result, hash_seed,
                       birth_year, da_yun, now_year, reports, window, outcome>>

\* ten_gods_result = analyze_ten_gods(pillars)
FrameTenGods ==
    \E i \in FrameInvocations :
        /\ pc[i] = "ten_gods"
        /\ ten_gods_result' =
                [ten_gods_result EXCEPT ![i] = <<analyze_ten_gods(pillars[i])>>]
        /\ pc' = [pc EXCEPT ![i] = "interactions"]
        /\ UNCHANGED <<pillars, element_result, strength_result,
                       interactions_result, yong_shin_result, hash_seed,
                       birth_year, da_yun, now_year, reports, window, outcome>>

\* interactions_result = analyze_interactions(pillars)
FrameInteractions ==
    \E i \in FrameInvocations :
        /\ pc[i] = "interactions"
        /\ interactions_result' =
                [interactions_result EXCEPT
                    ![i] = <<analyze_interactions(pillars[i], hash_seed)>>]
        /\ pc' = [pc EXCEPT ![i] = "yong_shin"]
        /\ UNCHANGED <<pillars, element_result, strength_result,
                       ten_gods_result, yong_shin_result, hash_seed,
                       birth_year, da_yun, now_year, reports, window, outcome>>

\* yong_shin_result = select_yong_shin(pillars, element_result, strength_result)
FrameSelect ==
    \E i \in FrameInvocations :
        /\ pc[i] = "yong_shin"
        /\ yong_shin_result' =
                [yong_shin_result EXCEPT
                    ![i] = <<select_yong_shin(pillars[i], element_result[i][1],
                                              strength_result[i][1])>>]
        /\ pc' = [pc EXCEPT ![i] = "fortune"]
        /\ UNCHANGED <<pillars, element_result, strength_result,
                       ten_gods_result, interactions_result, hash_seed,
                       birth_year, da_yun, now_year, reports, window, outcome>>

\* fortune_result = analyze_fortune(pillars, yong_shin_result, ...): every
\* decade window is copied into a new scored entry
FrameFortune ==
    \E i \in FrameInvocations :
        /\ pc[i] = "fortune"
        /\ outcome' =
                [outcome EXCEPT
                    ![i] = <<analyze_fortune(yong_shin_result[i][1], birth_year,
                                             get_yun_data(da_yun[i]),
                                             now_year)>>]
        /\ pc' = [pc EXCEPT ![i] = "returned"]
        /\ UNCHANGED <<pillars, element_result, strength_result,
                       ten_gods_result, interactions_result, yong_shin_result,
                       hash_seed, birth_year, da_yun, now_year, reports,
                       window>>

NextFrame ==
    \/ FrameElements
    \/ FrameStrength
    \/ FrameTenGods
    \/ FrameInteractions
    \/ FrameSelect
    \/ FrameFortune

SpecFrame == InitFrame /\ [][NextFrame]_vars

\* ------------------------------------------------------------------------
\* Properties
\* ------------------------------------------------------------------------

ElementsDone ==
    pc \in {"strength", "ten_gods", "interactions", "yong_shin", "selected"}

StrengthDone == pc \in {"ten_gods", "interactions", "yong_shin", "selected"}

TenGodsDone == pc \in {"interactions", "yong_shin", "selected"}

InteractionsDone == pc \in {"yong_shin", "selected"}

Selected == pc = "selected"

\* C1: whenever some two elements each hold a ratio of at least 30 % and one
\* of the two controls the other, the primary-need element returned is the
\* element that the controlling one generates.
C1_MediationWins ==
    Selected =>
        \A a \in ElementSet, b \in ElementSet :
            (/\ element_result.ratio[a] >= 300
             /\ element_result.ratio[b] >= 300
             /\ ELEMENT_CONTROLS[a] = b)
            => yong_shin_result.yong_shin = ELEMENT_GENERATES[a]

\* C1 divergence: Wood, Fire and Earth each hold at least 30 %, Wood
\* controls Earth and no other controlling pair exists, yet the element
\* returned is not Fire, the one Wood generates
C1_Witness ==
    /\ Selected
    /\ element_result.ratio["Wood"] >= 300
    /\ element_result.ratio["Fire"] >= 300
    /\ element_result.ratio["Earth"] >= 300
    /\ yong_shin_result.yong_shin # "Fire"

\* the surplus/deficit choice for the Chart in hand
BaselineChoice ==
    _select_by_strength(STEM_ELEMENT[pillars.day.stem],
                        strength_result.strength_level, element_result.score)

MediationTriggered == _check_tonggwan(element_result.ratio) # NoTonggwan

SevenRules(r, k) ==
    IF r >= 700 THEN "very_strong"
    ELSE IF r >= 550 THEN "strong"
    ELSE IF r >= 500 /\ k >= 2 THEN "strong"
    ELSE IF r <= 250 THEN "very_weak"
    ELSE IF r <= 400 THEN "weak"
    ELSE IF r <= 450 /\ k <= 1 THEN "weak"
    ELSE "balanced"

\* C3: the verdict is the one the seven ordered rules give for the
\* self-support ratio and the number of true indicators.
C3_StrengthVerdict ==
    StrengthDone =>
        strength_result.strength_level
            = SevenRules(strength_result.self_support_ratio,
                         (IF strength_result.is_deuk_ryeong THEN 1 ELSE 0)
                         + (IF strength_result.is_deuk_ji THEN 1 ELSE 0)
                         + (IF strength_result.is_deuk_se THEN 1 ELSE 0))

\* C3 witness: an extreme ratio next to a favourable indicator: a ratio of
\* at most 25 with at least one indicator true, verdict very-weak
C3_Witness ==
    /\ StrengthDone
    /\ strength_result.self_support_ratio <= 250
    /\ strength_result.deuk_count >= 1
    /\ strength_result.strength_level = "very_weak"

ValidWindow == window.stem \in StemSet /\ window.branch \in BranchSet

\* the five bonus and penalty terms of the scoring rule for one element
BonusPenalty(elem, yong_shin, gi_shin) ==
    (IF elem = yong_shin THEN 25 ELSE 0)
    + (IF ELEMENT_GENERATES[elem] = yong_shin THEN 15 ELSE 0)
    + (IF ELEMENT_GENERATES[yong_shin] = elem THEN 5 ELSE 0)
    - (IF elem = gi_shin THEN 20 ELSE 0)
    - (IF ELEMENT_GENERATES[elem] = gi_shin THEN 10 ELSE 0)

RatingBand(score) ==
    CASE score >= 85 -> "daegil"
      [] score < 85 /\ score >= 70 -> "gil"
      [] score < 70 /\ score >= 55 -> "botong"
      [] score < 55 /\ score >= 40 -> "hyung"
      [] score < 40 -> "daehyung"

C5_ScoreBounded ==
    pc = "scored" => (outcome.score \in Int /\ 0 <= outcome.score /\ outcome.score <= 100)

\* C5 witness: primary-need and harmful element are the same element and
\* both window characters are of it, so bonus and penalty stack twice
C5_Witness ==
    /\ pc = "scored"
    /\ ValidWindow
    /\ window.yong_shin = window.gi_shin
    /\ STEM_ELEMENT[window.stem] = window.yong_shin
    /\ BRANCH_ELEMENT[window.branch] = window.yong_shin
    /\ outcome.score = 60

\* sum of the five rounded percentages, in tenths of a percent
RatioSum == SumOver(element_result.ratio, ElementSet)

\* C6: the five rounded percentages sum to a value within 100 +/- 0.2.
C6_RatiosSumTo100 ==
    ElementsDone => (998 <= RatioSum /\ RatioSum <= 1002)

\* C6 witness: a Chart whose percentages use the whole slack, sum 100.2
C6_Witness == ElementsDone /\ RatioSum = 1002

\* C7: the total score is strictly positive and the day element's score is
\* at least 5 (150 in 1/30 points, 50 in tenths).
C7_DayElementPositive ==
    ElementsDone =>
        /\ element_result.raw_total > 0
        /\ element_result.total_score > 0
        /\ element_result.raw[element_result.day_element] >= 150
        /\ element_result.score[element_result.day_element] >= 50

\* C7 witness: a Chart in which no weighted position holds the day element,
\* whose day element scores exactly the base bonus
C7_Witness ==
    /\ ElementsDone
    /\ element_result.raw[element_result.day_element] = 150

\* C8: two calls of full_analysis on an identical input return identical
\* Analysis Reports, the timeline part and the order of the members of
\* every interaction included.
C8_Determinism ==
    \A i \in 1..Len(reports), j \in 1..Len(reports) : reports[i] = reports[j]

\* C8 divergence: two reports on one input that differ in the current age
\* and in the member order of an interaction
C8_Witness ==
    /\ Len(reports) = 2
    /\ reports[1].eight_characters = reports[2].eight_characters
    /\ reports[1].fortune_analysis.current_age
            # reports[2].fortune_analysis.current_age
    /\ reports[1].interactions_analysis.interactions
            # reports[2].interactions_analysis.interactions

\* the entries of a list that carry priority q, in list order
WithPriority(list, q) == SelectSeq(list, LAMBDA x : x.priority = q)

\* C9: the returned list is non-decreasing in priority and entries of equal
\* priority keep the order in which they were discovered.
C9_PriorityOrdering ==
    InteractionsDone =>
        LET list == interactions_result.interactions
            found == DiscoveredInteractions(pillars, hash_seed)
        IN  /\ \A i \in 1..Len(list), j \in 1..Len(list) :
                    i < j => list[i].priority <= list[j].priority
            /\ Len(list) = Len(found)
            /\ \A k \in 1..Len(found) :
                    WithPriority(list, found[k].priority)
                        = WithPriority(found, found[k].priority)

\* C9 witness: a list that the sort had to reorder and that holds two
\* different entries of one priority
C9_Witness ==
    /\ InteractionsDone
    /\ interactions_result.interactions # DiscoveredInteractions(pillars, hash_seed)
    /\ \E i \in 1..Len(interactions_result.interactions) :
        \E j \in 1..Len(interactions_result.interactions) :
            /\ i < j
            /\ interactions_result.interactions[i].priority
                    = interactions_result.interactions[j].priority
            /\ interactions_result.interactions[i].type
                    # interactions_result.interactions[j].type

\* C10: an operation given a window stem or branch outside the closed
\* alphabets ends in an error outcome; it never returns a result.
C10_DomainErrorSurfaced ==
    /\ (pc = "looked_up" /\ window.stem \notin StemSet) => outcome.kind = "error"
    /\ (pc = "scored" /\ ~ValidWindow) => outcome.kind = "error"

\* C10 divergence: a window whose stem and branch are both unrecognised is
\* scored 50 and rated
C10_Witness ==
    /\ pc = "scored"
    /\ window.stem \notin StemSet
    /\ window.branch \notin BranchSet
    /\ outcome.kind = "returned"
    /\ outcome.score = 50
    /\ outcome.rating = "hyung"

\* the relation categories that apply between day stem d and stem x
CategoriesThatApply(d, x) ==
    LET ed == STEM_ELEMENT[d]
        ex == STEM_ELEMENT[x]
    IN  {c \in {"bigeop", "siksang", "jaeseong", "gwanseong", "inseong"} :
            \/ c = "bigeop" /\ ed = ex
            \/ c = "siksang" /\ ELEMENT_GENERATES[ed] = ex
            \/ c = "jaeseong" /\ ELEMENT_CONTROLS[ed] = ex
            \/ c = "gwanseong" /\ ELEMENT_CONTROLS[ex] = ed
            \/ c = "inseong" /\ ELEMENT_GENERATES[ex] = ed}

\* the pair of labels of a category: equal polarity first
CategoryLabels ==
    [bigeop |-> <<"bigyeon", "geopjae">>, siksang |-> <<"siksin", "sanggwan">>,
     jaeseong |-> <<"pyeonjae", "jeongjae">>,
     gwanseong |-> <<"pyeongwan", "jeonggwan">>,
     inseong |-> <<"pyeonin", "jeongin">>]

\* stems alternate yang, yin along HEAVENLY_STEMS
StemIndex(x) == CHOOSE i \in 1..10 : HEAVENLY_STEMS[i] = x

EqualPolarity(d, x) == StemIndex(d) % 2 = StemIndex(x) % 2

\* every (stem, label, category) the ten-god stage reported for a stem other
\* than the day stem: the year, month and time stems and every hidden stem
\* of the four branches
ReportedStemLabels ==
    LET m == ten_gods_result.ten_god_map
    IN  {<<m[k].char, m[k].ten_god, m[k].category>> :
            k \in {"year_stem", "month_stem", "time_stem"}}
        \cup UNION {
            {<<m[k].hidden_ten_gods[i].stem, m[k].hidden_ten_gods[i].ten_god,
               m[k].hidden_ten_gods[i].category>> :
                i \in 1..Len(m[k].hidden_ten_gods)} :
            k \in {"year_branch", "month_branch", "day_branch", "time_branch"}}

\* C11: for the day stem and every other stem or hidden stem exactly one
\* relation category applies, the lookup returns a label, and the label is
\* the first of that category's pair at equal polarity and the second
\* otherwise.
C11_TenRelationMapping ==
    TenGodsDone =>
        \A e \in ReportedStemLabels :
            LET applies == CategoriesThatApply(pillars.day.stem, e[1])
            IN  /\ Cardinality(applies) = 1
                /\ e[3] \in applies
                /\ e[2] = IF EqualPolarity(pillars.day.stem, e[1])
                          THEN CategoryLabels[e[3]][1]
                          ELSE CategoryLabels[e[3]][2]

\* C11 witness: year stem Jia against day stem Jia is the same-polarity peer
\* label, next to a month stem of unequal polarity that the day stem controls
C11_Witness ==
    /\ TenGodsDone
    /\ pillars.day.stem = "Jia"
    /\ pillars.year.stem = "Jia"
    /\ ten_gods_result.ten_god_map["year_stem"].ten_god = "bigyeon"
    /\ pillars.month.stem = "Ji"
    /\ ten_gods_result.ten_god_map["month_stem"].ten_god = "jeongjae"

\* C12: select_yong_shin returns one primary-need, one ally and one harmful
\* element for every valid Chart, each of them one of the five elements.
C12_SelectionTotal ==
    Selected =>
        /\ yong_shin_result.yong_shin \in ElementSet
        /\ yong_shin_result.hee_shin \in ElementSet
        /\ yong_shin_result.gi_shin \in ElementSet

\* C12 witness: a balanced Chart in a temperate month without mediation,
\* for which the baseline alone supplied all three elements
C12_Witness ==
    /\ Selected
    /\ strength_result.strength_level = "balanced"
    /\ yong_shin_result.selection_reason = "balanced"
    /\ yong_shin_result.yong_shin \in ElementSet
    /\ yong_shin_result.hee_shin \in ElementSet
    /\ yong_shin_result.gi_shin \in ElementSet

\* the score of element e in Chart p by the stated algorithm, in 1/30 points:
\* over the seven positions of non-zero weight a stem gives its full weight
\* and a branch gives weight * days / 30 per hidden stem, plus 5 for the
\* day element
StatedScore(p, e) ==
    LET stems == <<<<"year_stem", p.year.stem>>, <<"month_stem", p.month.stem>>,
                   <<"time_stem", p.time.stem>>>>
        branches == <<<<"year_branch", p.year.branch>>,
                      <<"month_branch", p.month.branch>>,
                      <<"day_branch", p.day.branch>>,
                      <<"time_branch", p.time.branch>>>>
        hiddenOf(i) == HIDDEN_STEMS[branches[i][2]]
    IN  SumOver([i \in 1..3 |->
                    IF STEM_ELEMENT[stems[i][2]] = e
                    THEN 30 * POSITION_WEIGHTS[stems[i][1]] ELSE 0], 1..3)
        + SumOver([i \in 1..4 |->
                    SumOver([j \in 1..Len(hiddenOf(i)) |->
                                IF STEM_ELEMENT[hiddenOf(i)[j][1]] = e
                                THEN POSITION_WEIGHTS[branches[i][1]]
                                        * hiddenOf(i)[j][2]
                                ELSE 0],
                            1..Len(hiddenOf(i)))], 1..4)
        + (IF STEM_ELEMENT[p.day.stem] = e THEN 30 * 5 ELSE 0)

\* value (a count of 1/unit) is num/den rounded to the nearest 1/unit
NearestTo(value, unit, num, den) ==
    LET diff == value * den - unit * num
    IN  2 * diff <= den /\ 2 * (0 - diff) <= den

C14_WorkedStrength ==
    (StrengthDone /\ pillars = WorkedChart) =>
        /\ strength_result.is_deuk_ryeong
        /\ strength_result.is_deuk_ji
        /\ strength_result.is_deuk_se
        /\ strength_result.self_support_ratio = 676
        /\ strength_result.self_support_ratio = element_result.ratio["Wood"]
        /\ strength_result.strength_level = "strong"

\* C14 divergence: for that Chart the three indicators are true and the
\* verdict is strong, but the ratio reported is 67.5 next to a Wood
\* percentage of 67.6
C14_Witness ==
    /\ StrengthDone
    /\ pillars = WorkedChart
    /\ strength_result.is_deuk_ryeong
    /\ strength_result.is_deuk_ji
    /\ strength_result.is_deuk_se
    /\ strength_result.strength_level = "strong"
    /\ strength_result.self_support_score = 709
    /\ strength_result.self_support_ratio = 675
    /\ element_result.ratio["Wood"] = 676

\* C15: for the Chart of four Jia on four yin analyze_interactions returns
\* an empty list: total count 0, no clash, no fusion.
C15_WorkedInteractions ==
    (InteractionsDone /\ pillars = WorkedChart) =>
        /\ interactions_result.interactions = <<>>
        /\ interactions_result.total_count = 0
        /\ DOMAIN interactions_result.type_counts = {}
        /\ ~interactions_result.has_major_clash
        /\ ~interactions_result.has_harmony

\* C15 witness: the interaction stage has run on the Chart of four Jia on
\* four yin and found nothing
C15_Witness ==
    /\ pc = "yong_shin"
    /\ pillars = WorkedChart
    /\ Len(interactions_result.interactions) = 0
    /\ interactions_result.total_count = 0

\* C16: when only the day element's score (and with it the total) is larger
\* in the second distribution, the self-support ratio computed for the
\* second is at least the one computed for the first.
C16_RatioMonotone ==
    pc = "compared" =>
        strength_result.self_support_ratio >= outcome.first_ratio

\* C16 witness: a first distribution with score on both sides, where the
\* larger day score made the ratio strictly larger
C16_Witness ==
    /\ pc = "compared"
    /\ outcome.first_ratio > 0
    /\ strength_result.self_support_ratio > outcome.first_ratio
    /\ strength_result.self_support_ratio < 1000

\* the yearly timeline of report r is the six windows of the years
\* current_year .. current_year + 5, each with the year's pillar of the
\* sexagenary cycle and the score the Timeline Scorer gives that pillar
YearlyTimelineOf(r, current_year) ==
    LET yearly == r.fortune_analysis.yearly_fortunes
        yong_shin == r.yong_shin_analysis.yong_shin
        gi_shin == r.yong_shin_analysis.gi_shin
    IN  /\ Len(yearly) = 6
        /\ \A k \in 1..6 :
            /\ yearly[k].year = current_year + k - 1
            /\ yearly[k].stem = HEAVENLY_STEMS[((yearly[k].year - 4) % 10) + 1]
            /\ yearly[k].branch = EARTHLY_BRANCHES[((yearly[k].year - 4) % 12) + 1]
            /\ \E i \in 1..60 :
                SIXTY_JIAZI[i] = [stem |-> yearly[k].stem,
                                  branch |-> yearly[k].branch]
            /\ yearly[k].score =
                _score_fortune(yearly[k].stem, yearly[k].branch,
                               yong_shin, gi_shin)

\* C17: every report returned carries exactly six yearly windows, for the
\* current year and the five years after it in order, each holding that
\* year's stem and branch of the sexagenary cycle and the Timeline Scorer's
\* score for them.
C17_YearlyTimeline ==
    [][Len(reports') > Len(reports)
        => YearlyTimelineOf(reports'[Len(reports')], now_year)]_vars

\* C17 witness: a report made after the year changed, whose six windows
\* start at the new year
C17_Witness ==
    /\ Len(reports) = 2
    /\ now_year > ClockStart
    /\ Len(reports[2].fortune_analysis.yearly_fortunes) = 6
    /\ reports[2].fortune_analysis.yearly_fortunes[1].year = now_year
    /\ reports[2].fortune_analysis.yearly_fortunes[6].year = now_year + 5
    /\ reports[1].fortune_analysis.yearly_fortunes[1].year = ClockStart

\* C18: in every Selection Result the harmful element differs from the
\* primary-need element and the ally element differs from the harmful one.
C18_HarmfulNeverPrimary ==
    Selected =>
        /\ yong_shin_result.gi_shin # yong_shin_result.yong_shin
        /\ yong_shin_result.hee_shin # yong_shin_result.gi_shin

\* C18 divergence: temperature regulation replaced the primary-need element
\* by the element the baseline had already named harmful
C18_Witness ==
    /\ Selected
    /\ yong_shin_result.selection_reason = "johu"
    /\ BaselineChoice.gi_shin = yong_shin_result.yong_shin
    /\ yong_shin_result.gi_shin = yong_shin_result.yong_shin

\* the strategy a justification string names: the temperature and the
\* mediation overrides write their own name at its head, every other string
\* comes from the surplus / deficit baseline
StrategyNamedIn(reason) ==
    IF reason \in {"johu", "tonggwan"} THEN reason ELSE "eokbu"

\* C19: the reported selection method names the strategy that determined the
\* primary-need element: mediation whenever mediation triggered, temperature
\* regulation only when the very-hot / very-cold override was applied and
\* mediation did not trigger, balancing otherwise; and it agrees with the
\* strategy named in the justification string.
C19_MethodNamesStrategy ==
    Selected =>
        LET temperature == MONTH_TEMPERATURE[pillars.month.branch]
            mediated == _check_tonggwan(element_result.ratio) # NoTonggwan
            regulated == JohuApplies(_check_johu(temperature), temperature)
            method == yong_shin_result.selection_method
        IN  /\ mediated => method = "tonggwan"
            /\ method = "johu" <=> (regulated /\ ~mediated)
            /\ method = "eokbu" <=> (~regulated /\ ~mediated)
            /\ method = StrategyNamedIn(yong_shin_result.selection_reason)

\* C19 divergence: a merely hot or cold month, no override and no mediation:
\* the baseline decided, the reported method is temperature regulation
C19_Witness ==
    /\ Selected
    /\ MONTH_TEMPERATURE[pillars.month.branch] \in {"hot", "cold"}
    /\ yong_shin_result.yong_shin = BaselineChoice.yong_shin
    /\ StrategyNamedIn(yong_shin_result.selection_reason) = "eokbu"
    /\ yong_shin_result.selection_method = "johu"

\* the balanced verdict with neither override in effect: the Selection Result
\* is the baseline's
BalancedBaseline ==
    LET temperature == MONTH_TEMPERATURE[pillars.month.branch]
    IN  /\ Selected
        /\ strength_result.strength_level = "balanced"
        /\ _check_tonggwan(element_result.ratio) = NoTonggwan
        /\ ~JohuApplies(_check_johu(temperature), temperature)

\* C20: under the balanced verdict with neither override, the primary-need
\* element is the globally lowest-scored element (ties by the order Wood, Fire,
\* Earth, Metal, Water), the ally element is the generator of that element,
\* and the harmful element is the highest-scored element other than the day
\* element.
C20_BalancedBaseline ==
    BalancedBaseline =>
        LET score == element_result.score
            day_element == STEM_ELEMENT[pillars.day.stem]
            r == yong_shin_result
        IN  /\ r.yong_shin = MinElement(score)
            /\ ELEMENT_GENERATES[r.hee_shin] = r.yong_shin
            /\ r.gi_shin # day_element
            /\ \A e \in ElementSet \ {day_element} :
                   score[e] <= score[r.gi_shin]

\* C20 divergence: the ally element is the element the primary-need element
\* generates, the primary-need and harmful elements being as stated
C20_Witness ==
    /\ BalancedBaseline
    /\ yong_shin_result.yong_shin = MinElement(element_result.score)
    /\ yong_shin_result.hee_shin =
           ELEMENT_GENERATES[yong_shin_result.yong_shin]
    /\ ELEMENT_GENERATES[yong_shin_result.hee_shin] #
           yong_shin_result.yong_shin

\* the surplus / deficit baseline decided: neither override is in effect
BaselineDecided ==
    LET temperature == MONTH_TEMPERATURE[pillars.month.branch]
    IN  /\ Selected
        /\ _check_tonggwan(element_result.ratio) = NoTonggwan
        /\ ~JohuApplies(_check_johu(temperature), temperature)

\* the element that generates / controls the given one
GeneratorOf(e) == CHOOSE g \in ElementSet : ELEMENT_GENERATES[g] = e
ControllerOf(e) == CHOOSE c \in ElementSet : ELEMENT_CONTROLS[c] = e

\* C21: with neither override, a strong or very-strong Chart gets as
\* primary-need the lowest-scored of its output, wealth and authority
\* elements, as ally the second-lowest of the three and as harmful the
\* resource element; a weak or very-weak Chart gets as primary-need the
\* lower-scored of resource and peer, as ally the other one and as harmful
\* the authority element.
C21_SurplusDeficitBaseline ==
    BaselineDecided =>
        LET score == element_result.score
            day_element == STEM_ELEMENT[pillars.day.stem]
            output == ELEMENT_GENERATES[day_element]
            wealth == ELEMENT_CONTROLS[day_element]
            authority == ControllerOf(day_element)
            resource == GeneratorOf(day_element)
            level == strength_result.strength_level
            r == yong_shin_result
        IN  /\ level \in {"strong", "very_strong"} =>
                LET three == {output, wealth, authority}
                IN  /\ r.yong_shin \in three
                    /\ \A e \in three : score[r.yong_shin] <= score[e]
                    /\ r.hee_shin \in three \ {r.yong_shin}
                    /\ \A e \in three \ {r.yong_shin} :
                           score[r.hee_shin] <= score[e]
                    /\ r.gi_shin = resource
            /\ level \in {"weak", "very_weak"} =>
                /\ r.yong_shin \in {resource, day_element}
                /\ \A e \in {resource, day_element} :
                       score[r.yong_shin] <= score[e]
                /\ r.hee_shin \in {resource, day_element} \ {r.yong_shin}
                /\ r.gi_shin = authority

\* C21 witness: a strong Chart decided by the baseline whose output element,
\* the first candidate listed, is not the lowest-scored of the three
C21_Witness ==
    /\ BaselineDecided
    /\ strength_result.strength_level = "strong"
    /\ element_result.score[yong_shin_result.yong_shin] <
           element_result.score[ELEMENT_GENERATES[STEM_ELEMENT[pillars.day.stem]]]

\* the four branches whose table entry encodes self-punishment
SelfPunishingBranches == {"wu", "chen", "you", "hai"}

\* how many of the four branch positions hold branch b
BranchOccurrences(b) ==
    Cardinality({pos \in {"year", "month", "day", "time"} :
                    pillars[pos].branch = b})

\* the self-punishment entries of the returned list that name branch b
SelfPunishmentsOf(b) ==
    SelectSeq(interactions_result.interactions,
              LAMBDA x : x.type = "jahyeong" /\ x.elements = <<b>>)

\* C22: a Chart in which one of the four self-punishing branches occupies at
\* least two branch positions yields a self-punishment Interaction for that
\* branch, and a repeated branch that is not one of the four yields none.
C22_SelfPunishment ==
    InteractionsDone =>
        \A b \in BranchSet :
            /\ (b \in SelfPunishingBranches /\ BranchOccurrences(b) >= 2)
                    => Len(SelfPunishmentsOf(b)) >= 1
            /\ b \notin SelfPunishingBranches => Len(SelfPunishmentsOf(b)) = 0

\* C22 divergence: the branch wu stands at two positions or more and the
\* returned list holds no self-punishment entry at all
C22_Witness ==
    /\ InteractionsDone
    /\ BranchOccurrences("wu") >= 2
    /\ \A i \in 1..Len(interactions_result.interactions) :
           interactions_result.interactions[i].type # "jahyeong"

\* the place of an entry's kind in the stated detection order: directional
\* triple, three-harmony, six-branch fusion, stem fusion, branch clash,
\* punishment, break
KindRank(type) ==
    CASE type = "banghap" -> 1
      [] type \in {"samhap", "bansamhap"} -> 2
      [] type = "yukhap" -> 3
      [] type = "cheonganhap" -> 4
      [] type = "chung" -> 5
      [] type \in {"jahyeong", "hyeong", "samhyeong"} -> 6
      [] type = "pa" -> 7

\* C23: in the returned list the kinds appear in the order directional
\* triple, three-harmony, six-branch fusion, stem fusion, branch clash,
\* punishment, break, each kind carrying its own priority rank; every
\* six-branch fusion entry has a strictly smaller priority than, and is
\* listed before, every stem fusion entry.
C23_DetectionOrder ==
    InteractionsDone =>
        LET list == interactions_result.interactions
        IN  \A i \in 1..Len(list), j \in 1..Len(list) :
                /\ i < j => KindRank(list[i].type) <= KindRank(list[j].type)
                /\ KindRank(list[i].type) < KindRank(list[j].type)
                        => list[i].priority < list[j].priority
                /\ (list[i].type = "yukhap" /\ list[j].type = "cheonganhap")
                        => (list[i].priority < list[j].priority /\ i < j)

\* C23 divergence: a stem fusion entry listed ahead of a six-branch fusion
\* entry, the two carrying the same priority
C23_Witness ==
    /\ InteractionsDone
    /\ \E i \in 1..Len(interactions_result.interactions) :
        \E j \in 1..Len(interactions_result.interactions) :
            /\ i < j
            /\ interactions_result.interactions[i].type = "cheonganhap"
            /\ interactions_result.interactions[j].type = "yukhap"
            /\ interactions_result.interactions[i].priority
                    = interactions_result.interactions[j].priority

\* the branches standing at the four branch positions of the Chart
ChartBranches ==
    {pillars[pos].branch : pos \in {"year", "month", "day", "time"}}

\* the characters an entry names, as a set
MembersOf(x) == {x.elements[k] : k \in 1..Len(x.elements)}

\* the entries of the returned list of one of the given kinds whose
\* characters all belong to the given set
EntriesWithin(kinds, combo) ==
    SelectSeq(interactions_result.interactions,
              LAMBDA x : x.type \in kinds /\ MembersOf(x) \subseteq combo)

\* C24: when all three branches of a directional triple are present the list
\* contains one directional entry for that triple and no six-branch fusion
\* entry whose two members both belong to it; a fully present three-harmony
\* triple is reported once as full and not also as partial.
C24_LargerPatternOnce ==
    InteractionsDone =>
        /\ \A n \in 1..Len(BRANCH_DIRECTIONAL) :
            LET combo == BRANCH_DIRECTIONAL[n].combo
            IN  combo \subseteq ChartBranches =>
                    /\ Len(EntriesWithin({"banghap"}, combo)) = 1
                    /\ Len(EntriesWithin({"yukhap"}, combo)) = 0
        /\ \A n \in 1..Len(BRANCH_THREE_HARMONY) :
            LET combo == BRANCH_THREE_HARMONY[n].combo
            IN  combo \subseteq ChartBranches =>
                    /\ Len(EntriesWithin({"samhap"}, combo)) = 1
                    /\ Len(EntriesWithin({"bansamhap"}, combo)) = 0

\* C24 divergence: the directional triple hai, zi, chou is complete and
\* reported, and the pair zi-chou inside it is reported again as a
\* six-branch fusion
C24_Witness ==
    /\ InteractionsDone
    /\ {"hai", "zi", "chou"} \subseteq ChartBranches
    /\ Len(EntriesWithin({"banghap"}, {"hai", "zi", "chou"})) = 1
    /\ Len(EntriesWithin({"yukhap"}, {"zi", "chou"})) >= 1

\* the four branch positions of ten_god_map and the pillar each belongs to
BranchKeys ==
    [year_branch |-> "year", month_branch |-> "month",
     day_branch |-> "day", time_branch |-> "time"]

\* the label of a character of the given element and polarity against day
\* stem d: the category that applies between the two elements, its first
\* label at equal polarity and its second otherwise
LabelAgainst(d, element, polarity) ==
    LET ed == STEM_ELEMENT[d]
        category ==
            CHOOSE c \in DOMAIN CategoryLabels :
                \/ c = "bigeop" /\ ed = element
                \/ c = "siksang" /\ ELEMENT_GENERATES[ed] = element
                \/ c = "jaeseong" /\ ELEMENT_CONTROLS[ed] = element
                \/ c = "gwanseong" /\ ELEMENT_CONTROLS[element] = ed
                \/ c = "inseong" /\ ELEMENT_GENERATES[element] = ed
    IN  IF STEM_POLARITY[d] = polarity
        THEN CategoryLabels[category][1]
        ELSE CategoryLabels[category][2]

\* C25 as stated: the label of each branch position is the one determined by
\* the branch's own element and the branch's own polarity.
C25_BranchLabelOwnPolarity ==
    TenGodsDone =>
        \A k \in DOMAIN BranchKeys :
            LET b == pillars[BranchKeys[k]].branch
            IN  ten_gods_result.ten_god_map[k].ten_god
                    = LabelAgainst(pillars.day.stem, BRANCH_ELEMENT[b],
                                   BRANCH_POLARITY[b])

\* C25 amended: the label of each branch position is the one determined by
\* the element and the polarity of the branch's main hidden stem, the first
\* of its hidden-stem composition; that element is the branch's own element,
\* the polarity differs from the branch's own for zi, si, wu and hai.
C25_BranchLabelMainHiddenStem ==
    TenGodsDone =>
        \A k \in DOMAIN BranchKeys :
            LET b == pillars[BranchKeys[k]].branch
                main_stem == HIDDEN_STEMS[b][1][1]
            IN  /\ STEM_ELEMENT[main_stem] = BRANCH_ELEMENT[b]
                /\ ten_gods_result.ten_god_map[k].ten_god
                        = LabelAgainst(pillars.day.stem, STEM_ELEMENT[main_stem],
                                       STEM_POLARITY[main_stem])

\* C25 witness: the yang branch zi under the yang day stem Jia is labelled
\* by its yin main hidden stem Gui, not by its own polarity
C25_Witness ==
    /\ TenGodsDone
    /\ pillars.day.stem = "Jia"
    /\ pillars.year.branch = "zi"
    /\ BRANCH_POLARITY["zi"] = STEM_POLARITY["Jia"]
    /\ ten_gods_result.ten_god_map["year_branch"].ten_god = "jeongin"
    /\ LabelAgainst("Jia", "Water", BRANCH_POLARITY["zi"]) = "pyeonin"

\* the entries of the returned list that satisfy a test, by index
EntriesWhere(Test(_)) ==
    {i \in 1..Len(interactions_result.interactions) :
        Test(interactions_result.interactions[i])}

\* the sum of the per-type counts of the summary
RECURSIVE SumOfCounts(_, _)

SumOfCounts(counts, types) ==
    IF types = {} THEN 0
    ELSE LET t == CHOOSE x \in types : TRUE
         IN  counts[t] + SumOfCounts(counts, types \ {t})

\* C26: the clash flag is true exactly when the list contains a clash entry,
\* the fusion flag is true exactly when the list contains a fusion entry (any
\* entry with a resulting element: directional, full or partial
\* three-harmony, six-branch fusion or stem fusion), and the per-type counts
\* sum to the list length.
C26_SummaryDerived ==
    InteractionsDone =>
        LET r == interactions_result
        IN  /\ r.has_major_clash
                <=> EntriesWhere(LAMBDA x : x.type = "chung") # {}
            /\ r.has_harmony
                <=> EntriesWhere(LAMBDA x : x.result # "") # {}
            /\ \A i \in 1..Len(r.interactions) :
                    r.interactions[i].result # ""
                        <=> r.interactions[i].type
                                \in {"banghap", "samhap", "bansamhap",
                                     "yukhap", "cheonganhap"}
            /\ SumOfCounts(r.type_counts, DOMAIN r.type_counts)
                    = Len(r.interactions)
            /\ r.total_count = Len(r.interactions)

\* C26 divergence: the list holds a partial three-harmony entry with its
\* resulting element and the fusion flag is false
C26_Witness ==
    /\ InteractionsDone
    /\ EntriesWhere(LAMBDA x : x.type = "bansamhap" /\ x.result # "") # {}
    /\ ~interactions_result.has_harmony

\* the own assigned elements of the seven characters other than the day
\* stem: three stems, four branches
OtherCharacterElements ==
    [year_stem |-> STEM_ELEMENT[pillars.year.stem],
     month_stem |-> STEM_ELEMENT[pillars.month.stem],
     time_stem |-> STEM_ELEMENT[pillars.time.stem],
     year_branch |-> BRANCH_ELEMENT[pillars.year.branch],
     month_branch |-> BRANCH_ELEMENT[pillars.month.branch],
     day_branch |-> BRANCH_ELEMENT[pillars.day.branch],
     time_branch |-> BRANCH_ELEMENT[pillars.time.branch]]

\* the characters among the seven whose own element equals the day element
\* or generates it
Supporters ==
    LET day_element == STEM_ELEMENT[pillars.day.stem]
    IN  {k \in DOMAIN OtherCharacterElements :
            \/ OtherCharacterElements[k] = day_element
            \/ ELEMENT_GENERATES[OtherCharacterElements[k]] = day_element}

\* C27: majority-support is true exactly when at least 4 of the 7 characters
\* other than the day stem have an own assigned element that equals the day
\* element or generates it; a branch is judged by its own element only.
C27_MajoritySupport ==
    StrengthDone =>
        /\ Cardinality(DOMAIN OtherCharacterElements) = 7
        /\ strength_result.is_deuk_se <=> Cardinality(Supporters) >= 4

\* C27 witness: exactly four supporters make the majority, while a branch
\* that is no supporter by its own element holds a hidden stem of the day
\* element
C27_Witness ==
    /\ StrengthDone
    /\ Cardinality(Supporters) = 4
    /\ strength_result.is_deuk_se
    /\ \E k \in DOMAIN BranchKeys :
        /\ k \notin Supporters
        /\ \E i \in 1..Len(HIDDEN_STEMS[pillars[BranchKeys[k]].branch]) :
               STEM_ELEMENT[HIDDEN_STEMS[pillars[BranchKeys[k]].branch][i][1]]
                   = STEM_ELEMENT[pillars.day.stem]

\* the stage results held for invocation i, in pipeline order
ResultsOf(i) ==
    <<element_result[i], strength_result[i], ten_gods_result[i],
      interactions_result[i], yong_shin_result[i], outcome[i]>>

\* the same after the step
ResultsAfterOf(i) ==
    <<element_result'[i], strength_result'[i], ten_gods_result'[i],
      interactions_result'[i], yong_shin_result'[i], outcome'[i]>>

\* what one invocation returns for its Chart when it runs alone
ResultsAlone(i) ==
    LET r == full_analysis(pillars[i], birth_year, da_yun[i], now_year,
                           hash_seed)
    IN  << <<r.element_analysis>>, <<r.strength_analysis>>,
           <<r.ten_gods_analysis>>, <<r.interactions_analysis>>,
           <<r.yong_shin_analysis>>, <<r.fortune_analysis>> >>

====
